---- MODULE Spec2Model ----
(***************************************************************************)
(* A model of SmallWM's interaction state (XModel, x-model.cpp) and of its *)
(* X event dispatcher (XEvents, x-events.cpp).                             *)
(*                                                                         *)
(* The specifications share the variables and the operators:               *)
(*   SpecXModel  calls XModel's public methods directly, with any          *)
(*               arguments, in any order;                                  *)
(*   Spec, SpecFocus, SpecRules                                            *)
(*               run XEvents::step() on a stream of X events, each over    *)
(*               its own bounded set of events.                            *)
(* A property of a handler is stated of the handler applied in every       *)
(* reachable state: step(State, e, hotkey) is the state XEvents::step()    *)
(* leaves when it fetches event e in the current state.                    *)
(***************************************************************************)
EXTENDS Integers, FiniteSets, Sequences, TLC

(***************************************************************************)
(* Bounds of the model.                                                    *)
(***************************************************************************)
NumWindows == 2

(* X's None, the null window id (also what the getters of XModel return    *)
(* when there is no session).                                              *)
None == 0

(* Window ids.  Client windows are 1..NumWindows; the icon window and the  *)
(* placeholder window that the window manager creates for client c get     *)
(* ids of their own, and so does the root window.                          *)
Windows == 1 .. NumWindows
IconWindowOf(c) == NumWindows + c
PlaceholderOf(c) == 2 * NumWindows + c
IconWindows == { IconWindowOf(c) : c \in Windows }
Placeholders == { PlaceholderOf(c) : c \in Windows }
Root == 3 * NumWindows + 1
AllWindows == Windows \cup IconWindows \cup Placeholders \cup {Root}

(* struct Icon { Window client; Window icon; ... }.  An Icon* is modelled  *)
(* by the pair of the fields the lookup tables are keyed by; the null      *)
(* pointer by NullIcon.  NoEntry is what a std::map<Window, Icon*> holds   *)
(* for a key it has no node for.                                           *)
Icons == [client : Windows, icon : IconWindows]
NullIcon == [client |-> None, icon |-> None]
NoEntry == [client |-> -1, icon |-> -1]

(* struct MoveResize { client, placeholder, state }; m_moveresize == 0 is  *)
(* NoMoveResize.                                                           *)
NoMoveResize == [client |-> None, placeholder |-> None, state |-> "MR_INVALID"]
MakeMoveResize(client, placeholder, state) ==
    [client |-> client, placeholder |-> placeholder, state |-> state]

(***************************************************************************)
(* Bounds continued, and the values of the client model.                   *)
(***************************************************************************)
NumDesktops == 2

(* A client's desktop: a numbered user desktop, the sticky "all desktops"  *)
(* desktop, the icon desktop, or the desktop of the client being moved or  *)
(* resized (x-events.cpp tests is_icon_desktop, is_moving_desktop,         *)
(* is_resizing_desktop and is_all_desktop on the result of find_desktop).  *)
UserDesktop(n) == [kind |-> "user", n |-> n]
AllDesktops == [kind |-> "all", n |-> 0]
IconDesktop == [kind |-> "icon", n |-> 0]
MovingDesktop == [kind |-> "moving", n |-> 0]
ResizingDesktop == [kind |-> "resizing", n |-> 0]
NoDesktop == [kind |-> "none", n |-> 0]

is_user_desktop(d) == d.kind = "user"
is_all_desktop(d) == d.kind = "all"
is_icon_desktop(d) == d.kind = "icon"
is_moving_desktop(d) == d.kind = "moving"
is_resizing_desktop(d) == d.kind = "resizing"

(* The record the registry keeps of a client; NoClient where the window id *)
(* is not registered.  prior is the desktop the client left when it was    *)
(* iconified or when its move/resize session began.                        *)
NoClient ==
    [desktop |-> NoDesktop, prior |-> NoDesktop, layer |-> -1, mode |-> "NONE",
     x |-> 0, y |-> 0, width |-> 0, height |-> 0,
     autofocus |-> FALSE, unmapped |-> FALSE]

(* The geometry XData::get_attributes reports for a window that does not   *)
(* exist.                                                                  *)
NoAttr == [x |-> 0, y |-> 0, width |-> 0, height |-> 0]

VARIABLES
    m_clients_to_icons,       \* XModel: std::map<Window, Icon*>
    m_icon_windows_to_icons,  \* XModel: std::map<Window, Icon*>
    m_moveresize,             \* XModel: MoveResize*
    mr_live,                  \* number of MoveResize objects new'ed and not deleted
    m_clients,                \* ClientModel: the registry, window id -> client record
    m_current_desktop,        \* ClientModel: the number of the active desktop
    m_focused,                \* ClientModel: the focused client, or None
    m_screens,                \* ClientModel: the screen box fed by update_screens
    placeholder_attr,         \* XData: the geometry of the placeholder window
    m_done,                   \* XEvents: set by EXIT_WM
    hotkey,                   \* WMConfig: HK_MOUSE or HK_FOCUS
    exit_processed            \* history: step() has handled an EXIT_WM key action

vars ==
    <<m_clients_to_icons, m_icon_windows_to_icons, m_moveresize, mr_live,
      m_clients, m_current_desktop, m_focused, m_screens, placeholder_attr,
      m_done, hotkey, exit_processed>>

(* The window manager's state as one record: the operations below are      *)
(* functions from such a record to the record after the call.  forked is   *)
(* not kept: it says whether the call being made has forked a child        *)
(* process.                                                                *)
State ==
    [m_clients_to_icons |-> m_clients_to_icons,
     m_icon_windows_to_icons |-> m_icon_windows_to_icons,
     m_moveresize |-> m_moveresize,
     mr_live |-> mr_live,
     m_clients |-> m_clients,
     m_current_desktop |-> m_current_desktop,
     m_focused |-> m_focused,
     m_screens |-> m_screens,
     placeholder_attr |-> placeholder_attr,
     m_done |-> m_done,
     forked |-> FALSE]

Commit(t) ==
    /\ m_clients_to_icons' = t.m_clients_to_icons
    /\ m_icon_windows_to_icons' = t.m_icon_windows_to_icons
    /\ m_moveresize' = t.m_moveresize
    /\ mr_live' = t.mr_live
    /\ m_clients' = t.m_clients
    /\ m_current_desktop' = t.m_current_desktop
    /\ m_focused' = t.m_focused
    /\ m_screens' = t.m_screens
    /\ placeholder_attr' = t.placeholder_attr
    /\ m_done' = t.m_done

(***************************************************************************)
(* XModel (x-model.cpp).  A std::map is a function on all window ids whose *)
(* value is NoEntry where the map has no node.  operator[] on a key        *)
(* without a node makes a node that holds the null pointer and returns     *)
(* it: MapAt is what it returns, MapTouch the map it leaves.               *)
(***************************************************************************)
MapKeys == AllWindows \cup {None}
EmptyIconMap == [w \in MapKeys |-> NoEntry]

MapAt(m, key) == IF m[key] = NoEntry THEN NullIcon ELSE m[key]

MapTouch(m, key) == IF m[key] = NoEntry THEN [m EXCEPT ![key] = NullIcon] ELSE m

register_icon(s, icon) ==
    [s EXCEPT !.m_clients_to_icons[icon.client] = icon,
              !.m_icon_windows_to_icons[icon.icon] = icon]

unregister_icon(s, icon) ==
    [s EXCEPT !.m_clients_to_icons[icon.client] = NoEntry,
              !.m_icon_windows_to_icons[icon.icon] = NoEntry]

(* find_icon_from_client that returns the entry at or after the key, as    *)
(* lower_bound(client)->second does.                                       *)
find_icon_from_client_lower_bound(s, client) ==
    LET at_or_after == { k \in MapKeys : /\ k >= client
                                         /\ s.m_clients_to_icons[k] # NoEntry }
    IN  IF at_or_after = {} THEN NullIcon
        ELSE s.m_clients_to_icons[CHOOSE k \in at_or_after :
                                     \A j \in at_or_after : k <= j]

(* What find_icon_from_client returns, and the state it leaves. *)
find_icon_from_client(s, client) == MapAt(s.m_clients_to_icons, client)

after_find_icon_from_client(s, client) ==
    [s EXCEPT !.m_clients_to_icons = MapTouch(@, client)]

(* What find_icon_from_icon_window returns, and the state it leaves. *)
find_icon_from_icon_window(s, icon_win) == MapAt(s.m_icon_windows_to_icons, icon_win)

after_find_icon_from_icon_window(s, icon_win) ==
    [s EXCEPT !.m_icon_windows_to_icons = MapTouch(@, icon_win)]

enter_move(s, client, placeholder) ==
    IF s.m_moveresize # NoMoveResize
    THEN s
    ELSE [s EXCEPT !.m_moveresize = MakeMoveResize(client, placeholder, "MR_MOVE"),
                   !.mr_live = @ + 1]

(* enter_resize without the test of m_moveresize. *)
enter_resize_unguarded(s, client, placeholder) ==
    [s EXCEPT !.m_moveresize = MakeMoveResize(client, placeholder, "MR_RESIZE"),
              !.mr_live = @ + 1]

enter_resize(s, client, placeholder) ==
    IF s.m_moveresize # NoMoveResize
    THEN s
    ELSE [s EXCEPT !.m_moveresize = MakeMoveResize(client, placeholder, "MR_RESIZE"),
                   !.mr_live = @ + 1]

get_move_resize_placeholder(s) ==
    IF s.m_moveresize = NoMoveResize THEN None ELSE s.m_moveresize.placeholder

get_move_resize_client(s) ==
    IF s.m_moveresize = NoMoveResize THEN None ELSE s.m_moveresize.client

get_move_resize_state(s) ==
    IF s.m_moveresize = NoMoveResize THEN "MR_INVALID" ELSE s.m_moveresize.state

(* exit_move_resize that deletes the session and keeps the pointer. *)
exit_move_resize_dangling(s) ==
    IF s.m_moveresize = NoMoveResize
    THEN s
    ELSE [s EXCEPT !.mr_live = @ - 1]

exit_move_resize(s) ==
    IF s.m_moveresize = NoMoveResize
    THEN s
    ELSE [s EXCEPT !.m_moveresize = NoMoveResize, !.mr_live = @ - 1]

(***************************************************************************)
(* ClientModel and FocusCycle.  x-events.cpp calls these methods; their    *)
(* definitions are in model/client-model.cpp, model/focus-cycle.cpp and    *)
(* client-model-events.cpp, so each is written from its contract: an       *)
(* unknown id or an illegal transition is a no-op, and the icon, the       *)
(* placeholder and the XModel session are created and torn down together   *)
(* with the registry change that asks for them.                            *)
(***************************************************************************)
MIN_LAYER == 0
MAX_LAYER == 10
DEF_LAYER == 5
DIALOG_LAYER == 11

is_client(s, w) == w \in Windows /\ s.m_clients[w] # NoClient

find_desktop(s, w) == IF w \in Windows THEN s.m_clients[w].desktop ELSE NoDesktop

get_focused(s) == s.m_focused

(* A client is shown when it is on the active desktop or is sticky.        *)
is_visible(s, w) ==
    /\ is_client(s, w)
    /\ \/ s.m_clients[w].desktop = UserDesktop(s.m_current_desktop)
       \/ is_all_desktop(s.m_clients[w].desktop)

(* A client that is neither iconified nor being moved or resized. *)
OnScreenDesktop(s, w) ==
    /\ is_client(s, w)
    /\ \/ is_user_desktop(s.m_clients[w].desktop)
       \/ is_all_desktop(s.m_clients[w].desktop)

unfocus_if_focused(s, w) ==
    IF s.m_focused = w THEN [s EXCEPT !.m_focused = None] ELSE s

(* After the active desktop or a client's desktop changed: a focused       *)
(* client that is no longer shown loses the focus.                         *)
unfocus_if_hidden(s) ==
    IF s.m_focused # None /\ ~is_visible(s, s.m_focused)
    THEN [s EXCEPT !.m_focused = None]
    ELSE s

(* The clients the focus cycle may yield. *)
Focusable(s) ==
    { w \in Windows : /\ is_visible(s, w)
                      /\ s.m_clients[w].autofocus
                      /\ ~s.m_clients[w].unmapped }

focus(s, w) ==
    IF is_visible(s, w) /\ s.m_clients[w].autofocus
    THEN [s EXCEPT !.m_focused = w] ELSE s

force_focus(s, w) ==
    IF is_visible(s, w) THEN [s EXCEPT !.m_focused = w] ELSE s

SetMin(S) == CHOOSE m \in S : \A n \in S : m <= n
SetMax(S) == CHOOSE m \in S : \A n \in S : m >= n

(* get_next over every registered client, a cycle that is not filtered. *)
get_next_stale(s) ==
    LET F == { w \in Windows : is_client(s, w) }
        above == { w \in F : w > s.m_focused }
    IN  IF F = {} THEN None
        ELSE IF above # {} THEN SetMin(above)
        ELSE SetMin(F)

get_next(s) ==
    LET F == Focusable(s)
        above == { w \in F : w > s.m_focused }
    IN  IF F = {} THEN None
        ELSE IF above # {} THEN SetMin(above)
        ELSE SetMin(F)

get_prev(s) ==
    LET F == Focusable(s)
        below == { w \in F : w < s.m_focused }
    IN  IF F = {} THEN None
        ELSE IF s.m_focused # None /\ below # {} THEN SetMax(below)
        ELSE SetMax(F)

IconOf(w) == [client |-> w, icon |-> IconWindowOf(w)]

iconify(s, w) ==
    IF ~OnScreenDesktop(s, w) THEN s
    ELSE LET c == s.m_clients[w]
             t == [s EXCEPT !.m_clients[w] =
                       [c EXCEPT !.prior = c.desktop, !.desktop = IconDesktop]]
         IN  register_icon(unfocus_if_focused(t, w), IconOf(w))

deiconify(s, w) ==
    IF ~(is_client(s, w) /\ is_icon_desktop(s.m_clients[w].desktop)) THEN s
    ELSE LET c == s.m_clients[w]
             icon == find_icon_from_client(s, w)
             t == [s EXCEPT !.m_clients[w] =
                       [c EXCEPT !.desktop = c.prior, !.prior = NoDesktop]]
         IN  IF icon = NullIcon THEN t ELSE unregister_icon(t, icon)

add_client(s, w, init_state, x, y, width, height, autofocus) ==
    IF w \notin Windows \/ is_client(s, w) THEN s
    ELSE LET c == [desktop |-> UserDesktop(s.m_current_desktop), prior |-> NoDesktop,
                   layer |-> DEF_LAYER, mode |-> "CPS_FLOATING",
                   x |-> x, y |-> y, width |-> width, height |-> height,
                   autofocus |-> autofocus, unmapped |-> FALSE]
             t == [s EXCEPT !.m_clients[w] = c]
         IN  IF init_state = "IS_HIDDEN" THEN iconify(t, w)
             ELSE focus(t, w)

(* The session and the placeholder of client w, if it has them, are        *)
(* released.                                                               *)
release_session(s, w) ==
    IF get_move_resize_client(s) = w \/ s.m_moveresize = NoMoveResize
    THEN [exit_move_resize(s) EXCEPT !.placeholder_attr = NoAttr]
    ELSE s

remove_client(s, w) ==
    IF ~is_client(s, w) THEN s
    ELSE LET d == s.m_clients[w].desktop
             icon == find_icon_from_client(s, w)
             t1 == IF is_moving_desktop(d) \/ is_resizing_desktop(d)
                   THEN release_session(s, w) ELSE s
             t2 == IF icon # NullIcon THEN unregister_icon(t1, icon) ELSE t1
             t3 == unfocus_if_focused(t2, w)
         IN  [t3 EXCEPT !.m_clients[w] = NoClient]

unmap_client(s, w) ==
    IF ~is_client(s, w) THEN s
    ELSE unfocus_if_focused([s EXCEPT !.m_clients[w].unmapped = TRUE], w)

SessionOpen(s) ==
    \E w \in Windows : \/ is_moving_desktop(s.m_clients[w].desktop)
                       \/ is_resizing_desktop(s.m_clients[w].desktop)

AttrOf(c) == [x |-> c.x, y |-> c.y, width |-> c.width, height |-> c.height]

start_moving(s, w) ==
    IF ~is_visible(s, w) \/ SessionOpen(s) THEN s
    ELSE LET c == s.m_clients[w]
             t == [s EXCEPT !.m_clients[w] =
                       [c EXCEPT !.prior = c.desktop, !.desktop = MovingDesktop],
                            !.placeholder_attr = AttrOf(c)]
         IN  enter_move(unfocus_if_focused(t, w), w, PlaceholderOf(w))

start_resizing(s, w) ==
    IF ~is_visible(s, w) \/ SessionOpen(s) THEN s
    ELSE LET c == s.m_clients[w]
             t == [s EXCEPT !.m_clients[w] =
                       [c EXCEPT !.prior = c.desktop, !.desktop = ResizingDesktop],
                            !.placeholder_attr = AttrOf(c)]
         IN  enter_resize(unfocus_if_focused(t, w), w, PlaceholderOf(w))

stop_moving(s, w, x, y) ==
    IF ~(is_client(s, w) /\ is_moving_desktop(s.m_clients[w].desktop)) THEN s
    ELSE LET c == s.m_clients[w]
             t == [s EXCEPT !.m_clients[w] =
                       [c EXCEPT !.desktop = c.prior, !.prior = NoDesktop,
                                 !.x = x, !.y = y]]
         IN  release_session(t, w)

stop_resizing(s, w, width, height) ==
    IF ~(is_client(s, w) /\ is_resizing_desktop(s.m_clients[w].desktop)) THEN s
    ELSE LET c == s.m_clients[w]
             t == [s EXCEPT !.m_clients[w] =
                       [c EXCEPT !.desktop = c.prior, !.prior = NoDesktop,
                                 !.width = width, !.height = height]]
         IN  release_session(t, w)

NextDesktopOf(n) == (n % NumDesktops) + 1
PrevDesktopOf(n) == ((n + NumDesktops - 2) % NumDesktops) + 1

next_desktop(s) ==
    unfocus_if_hidden([s EXCEPT !.m_current_desktop = NextDesktopOf(@)])

prev_desktop(s) ==
    unfocus_if_hidden([s EXCEPT !.m_current_desktop = PrevDesktopOf(@)])

client_next_desktop(s, w) ==
    IF ~(is_client(s, w) /\ is_user_desktop(s.m_clients[w].desktop)) THEN s
    ELSE unfocus_if_hidden([s EXCEPT !.m_clients[w].desktop =
                                UserDesktop(NextDesktopOf(@.n))])

client_prev_desktop(s, w) ==
    IF ~(is_client(s, w) /\ is_user_desktop(s.m_clients[w].desktop)) THEN s
    ELSE unfocus_if_hidden([s EXCEPT !.m_clients[w].desktop =
                                UserDesktop(PrevDesktopOf(@.n))])

client_reset_desktop(s, w) ==
    IF ~OnScreenDesktop(s, w) THEN s
    ELSE [s EXCEPT !.m_clients[w].desktop = UserDesktop(s.m_current_desktop)]

toggle_stick(s, w) ==
    IF ~is_client(s, w) THEN s
    ELSE IF is_user_desktop(s.m_clients[w].desktop)
         THEN [s EXCEPT !.m_clients[w].desktop = AllDesktops]
    ELSE IF is_all_desktop(s.m_clients[w].desktop)
         THEN [s EXCEPT !.m_clients[w].desktop = UserDesktop(s.m_current_desktop)]
    ELSE s

(* Mode, location and layer.  A client that is iconified or in a session   *)
(* cannot change mode or location.                                         *)
change_mode(s, w, mode) ==
    IF OnScreenDesktop(s, w) THEN [s EXCEPT !.m_clients[w].mode = mode] ELSE s

change_location(s, w, x, y) ==
    IF OnScreenDesktop(s, w)
    THEN [s EXCEPT !.m_clients[w].x = x, !.m_clients[w].y = y]
    ELSE s

set_layer(s, w, layer) ==
    IF is_client(s, w) THEN [s EXCEPT !.m_clients[w].layer = layer] ELSE s

up_layer(s, w) ==
    IF is_client(s, w) /\ s.m_clients[w].layer < MAX_LAYER
    THEN [s EXCEPT !.m_clients[w].layer = @ + 1] ELSE s

down_layer(s, w) ==
    IF is_client(s, w) /\ s.m_clients[w].layer > MIN_LAYER
    THEN [s EXCEPT !.m_clients[w].layer = @ - 1] ELSE s

(* Screens: m_screens is the box of the one screen, or the boxes of two    *)
(* screens side by side, as a sequence from left to right.                 *)
update_screens(s, screens) == [s EXCEPT !.m_screens = screens]

ScreenIndex(s, w) ==
    LET c == s.m_clients[w]
        cx == c.x + (c.width \div 2)
        hits == { i \in 1 .. Len(s.m_screens) :
                    /\ s.m_screens[i].x <= cx
                    /\ cx < s.m_screens[i].x + s.m_screens[i].width }
    IN  IF hits = {} THEN 1 ELSE SetMin(hits)

get_screen(s, w) == s.m_screens[ScreenIndex(s, w)]

to_relative_screen(s, w, dir) ==
    IF ~OnScreenDesktop(s, w) THEN s
    ELSE LET i == ScreenIndex(s, w)
             j == IF dir = "DIR_LEFT" THEN i - 1
                  ELSE IF dir = "DIR_RIGHT" THEN i + 1
                  ELSE 0
         IN  IF j \in 1 .. Len(s.m_screens)
             THEN [s EXCEPT !.m_clients[w].x =
                       @ - s.m_screens[i].x + s.m_screens[j].x]
             ELSE s

(***************************************************************************)
(* WMConfig: the per-class actions and the classes that are not focused    *)
(* when they appear.  A relative position is a fraction <<num, den>>.      *)
(***************************************************************************)
NoClassActions ==
    [actions |-> {}, layer |-> DEF_LAYER, snap |-> "DIR_LEFT",
     relative_x |-> <<0, 1>>, relative_y |-> <<0, 1>>]

classactions ==
    [class \in {"Dialog", "Pager"} |->
        IF class = "Dialog"
        THEN [NoClassActions EXCEPT !.actions = {"ACT_STICK", "ACT_SETLAYER"},
                                    !.layer = DIALOG_LAYER]
        ELSE [NoClassActions EXCEPT !.actions = {"ACT_SETLAYER", "ACT_MOVE_Y"},
                                    !.layer = MAX_LAYER,
                                    !.relative_y = <<1, 2>>]]

no_autofocus == {"Pager"}

(***************************************************************************)
(* X events.  An event carries, besides the fields of the XEvent, what     *)
(* the handler asks XData about the event's window while it handles it.    *)
(***************************************************************************)
NoEvent ==
    [type |-> "None", window |-> None, subwindow |-> None,
     button |-> "NONE", state |-> "NONE", action |-> "INVALID_ACTION",
     override_redirect |-> FALSE, attr |-> NoAttr, iconic |-> FALSE,
     class |-> "", transient |-> FALSE, dx |-> 0, dy |-> 0, screens |-> <<>>]

(* XEvents::handle_rrnotify *)
handle_rrnotify(s, e) == update_screens(s, e.screens)

(* handle_keypress's target taken from the focus under every hotkey mode.   *)
KeyTarget_focused(s, e, hk) == get_focused(s)

(* The client a key action applies to (the head of handle_keypress). *)
KeyTarget(s, e, hk) ==
    IF hk = "HK_MOUSE"
    THEN (IF e.subwindow = None THEN e.window ELSE e.subwindow)
    ELSE get_focused(s)

ClientKeyAction(s, client, action) ==
    CASE action = "CLIENT_NEXT_DESKTOP" -> client_next_desktop(s, client)
      [] action = "CLIENT_PREV_DESKTOP" -> client_prev_desktop(s, client)
      [] action = "TOGGLE_STICK" -> toggle_stick(s, client)
      [] action = "ICONIFY" -> iconify(s, client)
      [] action = "MAXIMIZE" -> change_mode(s, client, "CPS_MAX")
      [] action = "REQUEST_CLOSE" -> s
      [] action = "FORCE_CLOSE" -> s
      [] action = "K_SNAP_TOP" -> change_mode(s, client, "CPS_SPLIT_TOP")
      [] action = "K_SNAP_BOTTOM" -> change_mode(s, client, "CPS_SPLIT_BOTTOM")
      [] action = "K_SNAP_LEFT" -> change_mode(s, client, "CPS_SPLIT_LEFT")
      [] action = "K_SNAP_RIGHT" -> change_mode(s, client, "CPS_SPLIT_RIGHT")
      [] action = "SCREEN_TOP" -> to_relative_screen(s, client, "DIR_TOP")
      [] action = "SCREEN_BOTTOM" -> to_relative_screen(s, client, "DIR_BOTTOM")
      [] action = "SCREEN_LEFT" -> to_relative_screen(s, client, "DIR_LEFT")
      [] action = "SCREEN_RIGHT" -> to_relative_screen(s, client, "DIR_RIGHT")
      [] action = "LAYER_ABOVE" -> up_layer(s, client)
      [] action = "LAYER_BELOW" -> down_layer(s, client)
      [] action = "LAYER_TOP" -> set_layer(s, client, MAX_LAYER)
      [] action = "LAYER_BOTTOM" -> set_layer(s, client, MIN_LAYER)
      [] action = "LAYER_1" -> set_layer(s, client, 1)
      [] action = "LAYER_2" -> set_layer(s, client, 2)
      [] action = "LAYER_3" -> set_layer(s, client, 3)
      [] action = "LAYER_4" -> set_layer(s, client, 4)
      [] action = "LAYER_5" -> set_layer(s, client, 5)
      [] action = "LAYER_6" -> set_layer(s, client, 6)
      [] action = "LAYER_7" -> set_layer(s, client, 7)
      [] action = "LAYER_8" -> set_layer(s, client, 8)
      [] action = "LAYER_9" -> set_layer(s, client, 9)
      [] OTHER -> s

cycle_focus(s) ==
    LET next_focused == get_next(s)
    IN  IF next_focused # None THEN focus(s, next_focused) ELSE s

cycle_focus_back(s) ==
    LET prev_focused == get_prev(s)
    IN  IF prev_focused # None THEN focus(s, prev_focused) ELSE s

(* handle_keypress with EXIT_WM among the actions that need a client. *)
handle_keypress_exit_needs_client(s, e, hk) ==
    IF hk \notin {"HK_MOUSE", "HK_FOCUS"} THEN s
    ELSE LET client == KeyTarget(s, e, hk)
             action == e.action
         IN  CASE action = "RUN" -> [s EXCEPT !.forked = TRUE]
               [] action = "CYCLE_FOCUS" -> cycle_focus(s)
               [] action = "CYCLE_FOCUS_BACK" -> cycle_focus_back(s)
               [] action = "NEXT_DESKTOP" -> next_desktop(s)
               [] action = "PREV_DESKTOP" -> prev_desktop(s)
               [] OTHER -> IF is_client(s, client)
                           THEN IF action = "EXIT_WM"
                                THEN [s EXCEPT !.m_done = TRUE]
                                ELSE ClientKeyAction(s, client, action)
                           ELSE s

(* XEvents::handle_keypress *)
handle_keypress(s, e, hk) ==
    IF hk \notin {"HK_MOUSE", "HK_FOCUS"} THEN s
    ELSE LET client == KeyTarget(s, e, hk)
             action == e.action
         IN  CASE action = "RUN" -> [s EXCEPT !.forked = TRUE]
               [] action = "CYCLE_FOCUS" -> cycle_focus(s)
               [] action = "CYCLE_FOCUS_BACK" -> cycle_focus_back(s)
               [] action = "EXIT_WM" -> [s EXCEPT !.m_done = TRUE]
               [] action = "NEXT_DESKTOP" -> next_desktop(s)
               [] action = "PREV_DESKTOP" -> prev_desktop(s)
               [] OTHER -> IF is_client(s, client)
                           THEN ClientKeyAction(s, client, action)
                           ELSE s

(* handle_buttonpress that looks for a client before it looks for an icon. *)
handle_buttonpress_icon_last(s, e) ==
    LET is_a_client == is_client(s, e.window) \/ is_client(s, e.subwindow)
        icon == find_icon_from_icon_window(s, e.window)
        s1 == after_find_icon_from_icon_window(s, e.window)
    IN  IF ~(is_a_client \/ icon # NullIcon)
           /\ e.button = "LAUNCH_BUTTON" /\ e.state = "ACTION_MASK"
        THEN [s1 EXCEPT !.forked = TRUE]
        ELSE IF is_a_client /\ e.state = "ACTION_MASK"
        THEN IF e.button # "MOVE_BUTTON" /\ e.button # "RESIZE_BUTTON"
             THEN s1
             ELSE LET t == IF e.button = "MOVE_BUTTON"
                           THEN start_moving(s1, e.subwindow) ELSE s1
                  IN  IF e.button = "RESIZE_BUTTON"
                      THEN start_resizing(t, e.subwindow) ELSE t
        ELSE IF is_a_client
        THEN force_focus(s1, e.window)
        ELSE IF icon # NullIcon
        THEN deiconify(s1, icon.client)
        ELSE s1

(* handle_buttonpress that starts the session on the event's window.       *)
handle_buttonpress_session_on_window(s, e) ==
    LET is_a_client == is_client(s, e.window) \/ is_client(s, e.subwindow)
        icon == find_icon_from_icon_window(s, e.window)
        s1 == after_find_icon_from_icon_window(s, e.window)
    IN  IF ~(is_a_client \/ icon # NullIcon)
           /\ e.button = "LAUNCH_BUTTON" /\ e.state = "ACTION_MASK"
        THEN [s1 EXCEPT !.forked = TRUE]
        ELSE IF icon # NullIcon
        THEN deiconify(s1, icon.client)
        ELSE IF is_a_client /\ e.state = "ACTION_MASK"
        THEN IF e.button # "MOVE_BUTTON" /\ e.button # "RESIZE_BUTTON"
             THEN s1
             ELSE LET t == IF e.button = "MOVE_BUTTON"
                           THEN start_moving(s1, e.window) ELSE s1
                  IN  IF e.button = "RESIZE_BUTTON"
                      THEN start_resizing(t, e.window) ELSE t
        ELSE IF is_a_client
        THEN force_focus(s1, e.window)
        ELSE s1

(* handle_buttonpress whose launch test does not look at the icon. *)
handle_buttonpress_launch_on_icon(s, e) ==
    LET is_a_client == is_client(s, e.window) \/ is_client(s, e.subwindow)
        icon == find_icon_from_icon_window(s, e.window)
        s1 == after_find_icon_from_icon_window(s, e.window)
    IN  IF ~is_a_client
           /\ e.button = "LAUNCH_BUTTON" /\ e.state = "ACTION_MASK"
        THEN [s1 EXCEPT !.forked = TRUE]
        ELSE IF icon # NullIcon
        THEN deiconify(s1, icon.client)
        ELSE IF is_a_client /\ e.state = "ACTION_MASK"
        THEN IF e.button # "MOVE_BUTTON" /\ e.button # "RESIZE_BUTTON"
             THEN s1
             ELSE LET t == IF e.button = "MOVE_BUTTON"
                           THEN start_moving(s1, e.subwindow) ELSE s1
                  IN  IF e.button = "RESIZE_BUTTON"
                      THEN start_resizing(t, e.subwindow) ELSE t
        ELSE IF is_a_client
        THEN force_focus(s1, e.window)
        ELSE s1

(* XEvents::handle_buttonpress *)
handle_buttonpress(s, e) ==
    LET is_a_client == is_client(s, e.window) \/ is_client(s, e.subwindow)
        icon == find_icon_from_icon_window(s, e.window)
        s1 == after_find_icon_from_icon_window(s, e.window)
    IN  IF ~(is_a_client \/ icon # NullIcon)
           /\ e.button = "LAUNCH_BUTTON" /\ e.state = "ACTION_MASK"
        THEN [s1 EXCEPT !.forked = TRUE]
        ELSE IF icon # NullIcon
        THEN deiconify(s1, icon.client)
        ELSE IF is_a_client /\ e.state = "ACTION_MASK"
        THEN IF e.button # "MOVE_BUTTON" /\ e.button # "RESIZE_BUTTON"
             THEN s1
             ELSE LET t == IF e.button = "MOVE_BUTTON"
                           THEN start_moving(s1, e.subwindow) ELSE s1
                  IN  IF e.button = "RESIZE_BUTTON"
                      THEN start_resizing(t, e.subwindow) ELSE t
        ELSE IF is_a_client
        THEN force_focus(s1, e.window)
        ELSE s1

(* XData::get_attributes of the placeholder window. *)
get_attributes(s, placeholder) ==
    IF placeholder = None THEN NoAttr ELSE s.placeholder_attr

(* handle_buttonrelease without the test of the released window. *)
handle_buttonrelease_any_window(s, e) ==
    LET expected_placeholder == get_move_resize_placeholder(s)
        state == get_move_resize_state(s)
        client == get_move_resize_client(s)
        attrs == get_attributes(s, expected_placeholder)
    IN  CASE state = "MR_MOVE" -> stop_moving(s, client, attrs.x, attrs.y)
          [] state = "MR_RESIZE" ->
                 stop_resizing(s, client, attrs.width, attrs.height)
          [] OTHER -> s

(* XEvents::handle_buttonrelease *)
handle_buttonrelease(s, e) ==
    LET expected_placeholder == get_move_resize_placeholder(s)
        state == get_move_resize_state(s)
        client == get_move_resize_client(s)
        attrs == get_attributes(s, expected_placeholder)
    IN  IF expected_placeholder # e.window THEN s
        ELSE CASE state = "MR_MOVE" -> stop_moving(s, client, attrs.x, attrs.y)
               [] state = "MR_RESIZE" ->
                      stop_resizing(s, client, attrs.width, attrs.height)
               [] OTHER -> s

(* handle_unmapnotify that removes the client instead of unmapping it. *)
handle_unmapnotify_removes(s, e) == remove_client(s, e.window)

(* XEvents::handle_unmapnotify *)
handle_unmapnotify(s, e) == unmap_client(s, e.window)

(* handle_motionnotify without the test for a session: outside a resize it *)
(* moves the window the placeholder was.                                   *)
handle_motionnotify_no_session_test(s, e) ==
    LET attr == s.placeholder_attr
        state == get_move_resize_state(s)
    IN  IF state = "MR_RESIZE"
        THEN LET cx == IF attr.width + e.dx <= 0 THEN 0 ELSE e.dx
                 cy == IF attr.height + e.dy <= 0 THEN 0 ELSE e.dy
             IN  [s EXCEPT !.placeholder_attr.width = attr.width + cx,
                           !.placeholder_attr.height = attr.height + cy]
        ELSE [s EXCEPT !.placeholder_attr.x = attr.x + e.dx,
                       !.placeholder_attr.y = attr.y + e.dy]

(* handle_motionnotify whose clamp lets a dimension reach zero. *)
handle_motionnotify_allows_zero(s, e) ==
    LET placeholder == get_move_resize_placeholder(s)
        attr == get_attributes(s, placeholder)
        state == get_move_resize_state(s)
    IN  IF placeholder = None THEN s
        ELSE CASE state = "MR_MOVE" ->
                      [s EXCEPT !.placeholder_attr.x = attr.x + e.dx,
                                !.placeholder_attr.y = attr.y + e.dy]
               [] state = "MR_RESIZE" ->
                      LET cx == IF attr.width + e.dx < 0 THEN 0 ELSE e.dx
                          cy == IF attr.height + e.dy < 0 THEN 0 ELSE e.dy
                      IN  [s EXCEPT !.placeholder_attr.width = attr.width + cx,
                                    !.placeholder_attr.height = attr.height + cy]
               [] OTHER -> s

(* XEvents::handle_motionnotify; XModel::update_pointer gives the change   *)
(* of the pointer since the last sample, <<e.dx, e.dy>>.                   *)
handle_motionnotify(s, e) ==
    LET placeholder == get_move_resize_placeholder(s)
        attr == get_attributes(s, placeholder)
        state == get_move_resize_state(s)
    IN  IF placeholder = None THEN s
        ELSE CASE state = "MR_MOVE" ->
                      [s EXCEPT !.placeholder_attr.x = attr.x + e.dx,
                                !.placeholder_attr.y = attr.y + e.dy]
               [] state = "MR_RESIZE" ->
                      LET cx == IF attr.width + e.dx <= 0 THEN 0 ELSE e.dx
                          cy == IF attr.height + e.dy <= 0 THEN 0 ELSE e.dy
                      IN  [s EXCEPT !.placeholder_attr.width = attr.width + cx,
                                    !.placeholder_attr.height = attr.height + cy]
               [] OTHER -> s

(* handle_expose that releases the icon it has drawn. *)
handle_expose_releases_icon(s, e) ==
    LET the_icon == find_icon_from_icon_window(s, e.window)
        s1 == after_find_icon_from_icon_window(s, e.window)
    IN  IF the_icon = NullIcon THEN s1 ELSE unregister_icon(s1, the_icon)

(* XEvents::handle_expose: the icon is only drawn. *)
handle_expose(s, e) ==
    LET the_icon == find_icon_from_icon_window(s, e.window)
        s1 == after_find_icon_from_icon_window(s, e.window)
    IN  IF the_icon = NullIcon THEN s1 ELSE s1

(* handle_destroynotify reading the window from the wrong field of the     *)
(* event.                                                                  *)
handle_destroynotify_wrong_field(s, e) == remove_client(s, e.subwindow)

(* XEvents::handle_destroynotify *)
handle_destroynotify(s, e) == remove_client(s, e.window)

(* The class actions of add_window, applied to the new client in the       *)
(* order of the code.                                                      *)
Scale(length, fraction) == (length * fraction[1]) \div fraction[2]

SnapMode(dir) ==
    CASE dir = "DIR_LEFT" -> "CPS_SPLIT_LEFT"
      [] dir = "DIR_RIGHT" -> "CPS_SPLIT_RIGHT"
      [] dir = "DIR_TOP" -> "CPS_SPLIT_TOP"
      [] OTHER -> "CPS_SPLIT_BOTTOM"

apply_relative_move(s, window, action, win_attr) ==
    LET screen == get_screen(s, window)
        t == change_mode(s, window, "CPS_FLOATING")
        win_x_pos == IF "ACT_MOVE_X" \in action.actions
                     THEN Scale(screen.width, action.relative_x) ELSE win_attr.x
        win_y_pos == IF "ACT_MOVE_Y" \in action.actions
                     THEN Scale(screen.height, action.relative_y) ELSE win_attr.y
    IN  IF win_attr.x # win_x_pos \/ win_attr.x # win_y_pos
        THEN change_location(t, window, win_x_pos, win_y_pos)
        ELSE t

apply_class_actions(s, window, action, win_attr) ==
    LET t1 == IF "ACT_STICK" \in action.actions THEN toggle_stick(s, window) ELSE s
        t2 == IF "ACT_MAXIMIZE" \in action.actions
              THEN change_mode(t1, window, "CPS_MAX") ELSE t1
        t3 == IF "ACT_SETLAYER" \in action.actions
              THEN set_layer(t2, window, action.layer) ELSE t2
        t4 == IF "ACT_SNAP" \in action.actions
              THEN change_mode(t3, window, SnapMode(action.snap)) ELSE t3
    IN  IF "ACT_MOVE_X" \in action.actions \/ "ACT_MOVE_Y" \in action.actions
        THEN apply_relative_move(t4, window, action, win_attr)
        ELSE t4

(* remap_client that sends the client to the next desktop instead of the   *)
(* active one.                                                             *)
remap_client_next_desktop(s, window) ==
    LET mapped_desktop == find_desktop(s, window)
        t1 == IF is_icon_desktop(mapped_desktop) THEN deiconify(s, window) ELSE s
        placeholder == get_move_resize_placeholder(t1)
        t2 == exit_move_resize(t1)
        placeholder_attr_ == get_attributes(t2, placeholder)
        t3 == IF is_moving_desktop(mapped_desktop)
              THEN stop_moving(t2, window, placeholder_attr_.x, placeholder_attr_.y)
              ELSE IF is_resizing_desktop(mapped_desktop)
              THEN stop_resizing(t2, window, placeholder_attr_.width,
                                 placeholder_attr_.height)
              ELSE t1
    IN  IF ~is_all_desktop(mapped_desktop)
        THEN client_next_desktop(t3, window)
        ELSE t3

(* remap_client that does not end the move or the resize. *)
remap_client_keeps_session(s, window) ==
    LET mapped_desktop == find_desktop(s, window)
        t1 == IF is_icon_desktop(mapped_desktop) THEN deiconify(s, window) ELSE s
    IN  IF ~is_all_desktop(mapped_desktop)
        THEN client_reset_desktop(t1, window)
        ELSE t1

(* remap_client that resets the desktop of every client, sticky or not. *)
remap_client_always_reset(s, window) ==
    LET mapped_desktop == find_desktop(s, window)
        t1 == IF is_icon_desktop(mapped_desktop) THEN deiconify(s, window) ELSE s
        placeholder == get_move_resize_placeholder(t1)
        t2 == exit_move_resize(t1)
        placeholder_attr_ == get_attributes(t2, placeholder)
        t3 == IF is_moving_desktop(mapped_desktop)
              THEN stop_moving(t2, window, placeholder_attr_.x, placeholder_attr_.y)
              ELSE IF is_resizing_desktop(mapped_desktop)
              THEN stop_resizing(t2, window, placeholder_attr_.width,
                                 placeholder_attr_.height)
              ELSE t1
    IN  client_reset_desktop(t3, window)

(* add_window, the window already a client (x-events.cpp 485-517). *)
remap_client(s, window) ==
    LET mapped_desktop == find_desktop(s, window)
        t1 == IF is_icon_desktop(mapped_desktop) THEN deiconify(s, window) ELSE s
        placeholder == get_move_resize_placeholder(t1)
        t2 == exit_move_resize(t1)
        placeholder_attr_ == get_attributes(t2, placeholder)
        t3 == IF is_moving_desktop(mapped_desktop)
              THEN stop_moving(t2, window, placeholder_attr_.x, placeholder_attr_.y)
              ELSE IF is_resizing_desktop(mapped_desktop)
              THEN stop_resizing(t2, window, placeholder_attr_.width,
                                 placeholder_attr_.height)
              ELSE t1
    IN  IF ~is_all_desktop(mapped_desktop)
        THEN client_reset_desktop(t3, window)
        ELSE t3

(* manage_window that sets the layer of a dialog after the class actions.  *)
manage_window_dialog_last(s, e) ==
    LET window == e.window
        win_attr == e.attr
        init_state == IF e.iconic THEN "IS_HIDDEN" ELSE "IS_VISIBLE"
        win_class == e.class
        should_focus == win_class \notin no_autofocus
        t1 == add_client(s, window, init_state, win_attr.x, win_attr.y,
                         win_attr.width, win_attr.height, should_focus)
        t2 == IF win_class \in DOMAIN classactions /\ init_state # "IS_HIDDEN"
              THEN apply_class_actions(t1, window, classactions[win_class], win_attr)
              ELSE t1
    IN  IF e.override_redirect THEN s
        ELSE IF e.transient THEN set_layer(t2, window, DIALOG_LAYER) ELSE t2

(* manage_window that looks at override_redirect after it has registered   *)
(* the client.                                                             *)
manage_window_override_late(s, e) ==
    LET window == e.window
        win_attr == e.attr
        init_state == IF e.iconic THEN "IS_HIDDEN" ELSE "IS_VISIBLE"
        win_class == e.class
        should_focus == win_class \notin no_autofocus
        t1 == add_client(s, window, init_state, win_attr.x, win_attr.y,
                         win_attr.width, win_attr.height, should_focus)
        t2 == IF e.transient THEN set_layer(t1, window, DIALOG_LAYER) ELSE t1
    IN  IF e.override_redirect THEN t1
        ELSE IF win_class \in DOMAIN classactions /\ init_state # "IS_HIDDEN"
        THEN apply_class_actions(t2, window, classactions[win_class], win_attr)
        ELSE t2

(* manage_window that does not read the initial state from the hints. *)
manage_window_ignores_hints(s, e) ==
    LET window == e.window
        win_attr == e.attr
        init_state == "IS_VISIBLE"
        win_class == e.class
        should_focus == win_class \notin no_autofocus
        t1 == add_client(s, window, init_state, win_attr.x, win_attr.y,
                         win_attr.width, win_attr.height, should_focus)
        t2 == IF e.transient THEN set_layer(t1, window, DIALOG_LAYER) ELSE t1
    IN  IF e.override_redirect THEN s
        ELSE IF win_class \in DOMAIN classactions /\ init_state # "IS_HIDDEN"
        THEN apply_class_actions(t2, window, classactions[win_class], win_attr)
        ELSE t2

(* manage_window that runs the class actions for a hidden window too. *)
manage_window_rules_when_hidden(s, e) ==
    LET window == e.window
        win_attr == e.attr
        init_state == IF e.iconic THEN "IS_HIDDEN" ELSE "IS_VISIBLE"
        win_class == e.class
        should_focus == win_class \notin no_autofocus
        t1 == add_client(s, window, init_state, win_attr.x, win_attr.y,
                         win_attr.width, win_attr.height, should_focus)
        t2 == IF e.transient THEN set_layer(t1, window, DIALOG_LAYER) ELSE t1
    IN  IF e.override_redirect THEN s
        ELSE IF win_class \in DOMAIN classactions
        THEN apply_class_actions(t2, window, classactions[win_class], win_attr)
        ELSE t2

(* add_window, the window not yet a client (x-events.cpp 519-619). *)
manage_window(s, e) ==
    LET window == e.window
        win_attr == e.attr
        init_state == IF e.iconic THEN "IS_HIDDEN" ELSE "IS_VISIBLE"
        win_class == e.class
        should_focus == win_class \notin no_autofocus
        t1 == add_client(s, window, init_state, win_attr.x, win_attr.y,
                         win_attr.width, win_attr.height, should_focus)
        t2 == IF e.transient THEN set_layer(t1, window, DIALOG_LAYER) ELSE t1
    IN  IF e.override_redirect THEN s
        ELSE IF win_class \in DOMAIN classactions /\ init_state # "IS_HIDDEN"
        THEN apply_class_actions(t2, window, classactions[win_class], win_attr)
        ELSE t2

(* add_window without the test for a known client. *)
add_window_always_manage(s, e) == manage_window(s, e)

(* XEvents::add_window *)
add_window(s, e) ==
    IF is_client(s, e.window) THEN remap_client(s, e.window) ELSE manage_window(s, e)

(* XEvents::handle_mapnotify *)
handle_mapnotify(s, e) == add_window(s, e)

(* XEvents::step: the event e has been fetched into m_event. *)
step(s, e, hk) ==
    LET t == IF e.type = "RRNotify" THEN handle_rrnotify(s, e) ELSE s
    IN  CASE e.type = "KeyPress" -> handle_keypress(t, e, hk)
          [] e.type = "ButtonPress" -> handle_buttonpress(t, e)
          [] e.type = "ButtonRelease" -> handle_buttonrelease(t, e)
          [] e.type = "MotionNotify" -> handle_motionnotify(t, e)
          [] e.type = "MapNotify" -> handle_mapnotify(t, e)
          [] e.type = "UnmapNotify" -> handle_unmapnotify(t, e)
          [] e.type = "Expose" -> handle_expose(t, e)
          [] e.type = "DestroyNotify" -> handle_destroynotify(t, e)
          [] OTHER -> t

(* What step() returns after it has handled e: whether more events can be *)
(* processed.                                                              *)
step_returns(s, e, hk) == ~step(s, e, hk).m_done

(***************************************************************************)
(* Bounds of the inputs: the geometry of new windows and of the screens,   *)
(* and how far a placeholder may be dragged.                               *)
(***************************************************************************)
MaxPos == 1
MaxSize == 2
ScreenSize == 2

Box(x, y, width, height) == [x |-> x, y |-> y, width |-> width, height |-> height]

OneScreen == <<Box(0, 0, ScreenSize, ScreenSize)>>
TwoScreens ==
    <<Box(0, 0, ScreenSize, ScreenSize), Box(ScreenSize, 0, ScreenSize, ScreenSize)>>

(***************************************************************************)
(* The state after construction.                                           *)
(***************************************************************************)
Init ==
    /\ m_clients_to_icons = EmptyIconMap
    /\ m_icon_windows_to_icons = EmptyIconMap
    /\ m_moveresize = NoMoveResize
    /\ mr_live = 0
    /\ m_clients = [w \in Windows |-> NoClient]
    /\ m_current_desktop = 1
    /\ m_focused = None
    /\ m_screens = OneScreen
    /\ placeholder_attr = NoAttr
    /\ m_done = FALSE
    /\ hotkey \in {"HK_MOUSE", "HK_FOCUS"}
    /\ exit_processed = FALSE

(***************************************************************************)
(* The events.                                                             *)
(***************************************************************************)
RRNotify(screens) == [NoEvent EXCEPT !.type = "RRNotify", !.screens = screens]

KeyPress(action, subwindow) ==
    [NoEvent EXCEPT !.type = "KeyPress", !.action = action,
                    !.window = Root, !.subwindow = subwindow]

ButtonPress(window, subwindow, button, state) ==
    [NoEvent EXCEPT !.type = "ButtonPress", !.window = window,
                    !.subwindow = subwindow, !.button = button, !.state = state]

ButtonRelease(window) == [NoEvent EXCEPT !.type = "ButtonRelease", !.window = window]

MotionNotify(dx, dy) == [NoEvent EXCEPT !.type = "MotionNotify", !.dx = dx, !.dy = dy]

(* q is what XData answers about a window that is not a client yet. *)
NewWindow(override_redirect, attr, iconic, class, transient) ==
    [override_redirect |-> override_redirect, attr |-> attr, iconic |-> iconic,
     class |-> class, transient |-> transient]

MapNotify(window, q) ==
    [NoEvent EXCEPT !.type = "MapNotify", !.window = window,
                    !.override_redirect = q.override_redirect, !.attr = q.attr,
                    !.iconic = q.iconic, !.class = q.class,
                    !.transient = q.transient]

Plain == NewWindow(FALSE, Box(0, 0, 1, 1), FALSE, "Plain", FALSE)

UnmapNotify(window) == [NoEvent EXCEPT !.type = "UnmapNotify", !.window = window]

Expose(window) == [NoEvent EXCEPT !.type = "Expose", !.window = window]

DestroyNotify(window) == [NoEvent EXCEPT !.type = "DestroyNotify", !.window = window]

(***************************************************************************)
(* The event loop: one action per kind of event, each running step() on    *)
(* one event to completion.  The loop ends when step() returns false.      *)
(***************************************************************************)
(* The event is a key press bound to the EXIT_WM action. *)
IsExit(e) == e.type = "KeyPress" /\ e.action = "EXIT_WM"

Step(e) ==
    /\ ~m_done
    /\ Commit(step(State, e, hotkey))
    /\ exit_processed' = (exit_processed \/ IsExit(e))
    /\ UNCHANGED hotkey

RRNotifyEvent(I) == \E screens \in I.layouts : Step(RRNotify(screens))

KeyPressEvent(I) ==
    \E action \in I.actions, sub \in I.keywindows : Step(KeyPress(action, sub))

ButtonPressEvent(I) ==
    \E p \in I.presses, state \in I.modifiers :
        Step(ButtonPress(p[1], p[2], p[3], state))

ButtonReleaseEvent(I) == \E w \in I.releases : Step(ButtonRelease(w))

(* The placeholder is kept within the bounds. *)
InBounds(attr) ==
    /\ attr.x \in 0 .. MaxPos
    /\ attr.y \in 0 .. MaxPos
    /\ attr.width <= MaxSize
    /\ attr.height <= MaxSize

MotionNotifyEvent(I) ==
    \E d \in I.deltas :
        /\ InBounds(step(State, MotionNotify(d[1], d[2]), hotkey).placeholder_attr)
        /\ Step(MotionNotify(d[1], d[2]))

MapNotifyEvent(I) ==
    \E w \in Windows :
        \/ /\ is_client(State, w)
           /\ Step(MapNotify(w, Plain))
        \/ /\ ~is_client(State, w)
           /\ \E q \in I.newwindows : Step(MapNotify(w, q))

UnmapNotifyEvent(I) == \E w \in I.unmaps : Step(UnmapNotify(w))

ExposeEvent(I) == \E w \in I.exposes : Step(Expose(w))

DestroyNotifyEvent(I) == \E w \in I.destroys : Step(DestroyNotify(w))

NextOver(I) ==
    \/ RRNotifyEvent(I)
    \/ KeyPressEvent(I)
    \/ ButtonPressEvent(I)
    \/ ButtonReleaseEvent(I)
    \/ MotionNotifyEvent(I)
    \/ MapNotifyEvent(I)
    \/ UnmapNotifyEvent(I)
    \/ ExposeEvent(I)
    \/ DestroyNotifyEvent(I)

(* Where a press can land: on an icon window, or on a client, reported as  *)
(* the subwindow of the root; with the button pressed.                     *)
Presses(buttons) ==
    { <<w, None, b>> : w \in IconWindows, b \in buttons } \cup
    { <<Root, w, b>> : w \in Windows \cup {None}, b \in buttons }

(***************************************************************************)
(* Spec: clients come and go, are iconified, moved, resized and sent to    *)
(* other desktops.                                                         *)
(***************************************************************************)
SpecInputs ==
    [layouts |-> {OneScreen},
     actions |-> {"RUN", "EXIT_WM", "NEXT_DESKTOP", "PREV_DESKTOP",
                  "CLIENT_NEXT_DESKTOP", "TOGGLE_STICK", "ICONIFY"},
     keywindows |-> Windows,
     presses |-> Presses({"MOVE_BUTTON", "RESIZE_BUTTON", "LAUNCH_BUTTON"}),
     modifiers |-> {"ACTION_MASK", "NO_MASK"},
     releases |-> Placeholders,
     deltas |-> { <<1, 0>>, <<-1, 0>> },
     newwindows |-> { Plain, [Plain EXCEPT !.iconic = TRUE],
                      [Plain EXCEPT !.override_redirect = TRUE] },
     unmaps |-> IconWindows,
     exposes |-> IconWindows,
     destroys |-> Windows]

Next == NextOver(SpecInputs)

Spec == Init /\ [][Next]_vars

(***************************************************************************)
(* SpecRules: windows of every class appear, visible or iconic, transient  *)
(* or not, on either desktop.                                              *)
(***************************************************************************)
(* What XData may answer about a window that is being mapped. *)
Queries ==
    { NewWindow(o, Box(0, 0, 1, 1), i, c, tr) :
        o \in BOOLEAN, i \in BOOLEAN, c \in {"Plain", "Dialog", "Pager"},
        tr \in BOOLEAN }

RulesInputs ==
    [layouts |-> {OneScreen},
     actions |-> {"EXIT_WM", "NEXT_DESKTOP"},
     keywindows |-> {None},
     presses |-> Presses({"MOVE_BUTTON"}),
     modifiers |-> {"ACTION_MASK"},
     releases |-> Placeholders,
     deltas |-> { <<1, 0>> },
     newwindows |-> Queries,
     unmaps |-> IconWindows,
     exposes |-> IconWindows,
     destroys |-> Windows]

NextRules == NextOver(RulesInputs)

SpecRules == Init /\ [][NextRules]_vars

(***************************************************************************)
(* SpecMotion: clients of several sizes are moved and resized with the     *)
(* pointer going every way, by one step and by two.                        *)
(***************************************************************************)
PointerDeltas ==
    { <<dx, dy>> : dx \in -MaxSize .. MaxSize, dy \in -MaxSize .. MaxSize }

MotionInputs ==
    [layouts |-> {OneScreen},
     actions |-> {"EXIT_WM"},
     keywindows |-> {None},
     presses |-> Presses({"MOVE_BUTTON", "RESIZE_BUTTON"}),
     modifiers |-> {"ACTION_MASK"},
     releases |-> Placeholders,
     deltas |-> PointerDeltas,
     newwindows |-> { Plain, NewWindow(FALSE, Box(0, 0, MaxSize, 1), FALSE, "Plain", FALSE) },
     unmaps |-> IconWindows,
     exposes |-> IconWindows,
     destroys |-> Windows]

NextMotion == NextOver(MotionInputs)

SpecMotion == Init /\ [][NextMotion]_vars

(***************************************************************************)
(* SpecFocus: clients that take the focus or not appear, are unmapped,     *)
(* iconified, clicked and destroyed, the desktop changes, and the focus is *)
(* cycled.                                                                 *)
(***************************************************************************)
FocusInputs ==
    [layouts |-> {OneScreen},
     actions |-> {"EXIT_WM", "CYCLE_FOCUS", "CYCLE_FOCUS_BACK", "ICONIFY",
                  "NEXT_DESKTOP", "CLIENT_NEXT_DESKTOP", "TOGGLE_STICK"},
     keywindows |-> Windows,
     presses |-> { <<w, None, "MOVE_BUTTON">> : w \in Windows }
                 \cup { <<Root, w, "MOVE_BUTTON">> : w \in Windows },
     modifiers |-> {"ACTION_MASK", "NO_MASK"},
     releases |-> Placeholders,
     deltas |-> { <<1, 0>> },
     newwindows |-> { Plain, [Plain EXCEPT !.class = "Pager"] },
     unmaps |-> Windows,
     exposes |-> {Root},
     destroys |-> Windows]

NextFocus == NextOver(FocusInputs)

SpecFocus == Init /\ [][NextFocus]_vars

(***************************************************************************)
(* SpecXModel: the public methods of XModel, called directly.              *)
(***************************************************************************)
CallRegisterIcon(icon) ==
    /\ Commit(register_icon(State, icon))
    /\ UNCHANGED <<hotkey, exit_processed>>

CallUnregisterIcon(icon) ==
    /\ Commit(unregister_icon(State, icon))
    /\ UNCHANGED <<hotkey, exit_processed>>

CallFindIconFromClient(client) ==
    /\ Commit(after_find_icon_from_client(State, client))
    /\ UNCHANGED <<hotkey, exit_processed>>

CallFindIconFromIconWindow(icon_win) ==
    /\ Commit(after_find_icon_from_icon_window(State, icon_win))
    /\ UNCHANGED <<hotkey, exit_processed>>

CallEnterMove(client, placeholder) ==
    /\ Commit(enter_move(State, client, placeholder))
    /\ UNCHANGED <<hotkey, exit_processed>>

CallEnterResize(client, placeholder) ==
    /\ Commit(enter_resize(State, client, placeholder))
    /\ UNCHANGED <<hotkey, exit_processed>>

CallExitMoveResize ==
    /\ Commit(exit_move_resize(State))
    /\ UNCHANGED <<hotkey, exit_processed>>

NextXModel ==
    \/ \E icon \in Icons : CallRegisterIcon(icon)
    \/ \E icon \in Icons : CallUnregisterIcon(icon)
    \/ \E client \in Windows \cup {Root} : CallFindIconFromClient(client)
    \/ \E icon_win \in IconWindows \cup {Root} : CallFindIconFromIconWindow(icon_win)
    \/ \E c \in Windows, p \in Placeholders : CallEnterMove(c, p)
    \/ \E c \in Windows, p \in Placeholders : CallEnterResize(c, p)
    \/ CallExitMoveResize

SpecXModel == Init /\ [][NextXModel]_vars

(***************************************************************************)
(* The claims.                                                             *)
(***************************************************************************)
SessionOf(s) ==
    <<get_move_resize_client(s), get_move_resize_placeholder(s),
      get_move_resize_state(s)>>

(* C1: at most one move/resize session is live after any calls of          *)
(* enter_move, enter_resize and exit_move_resize, and an enter_move or     *)
(* enter_resize made while a session is active leaves the session, its     *)
(* client, its placeholder and its mode as they were.                      *)
C1_FirstSessionWins ==
    /\ mr_live <= 1
    /\ (mr_live = 1) <=> (m_moveresize # NoMoveResize)
    /\ m_moveresize # NoMoveResize =>
         \A c \in Windows, p \in Placeholders :
            /\ enter_move(State, c, p).m_moveresize = m_moveresize
            /\ SessionOf(enter_move(State, c, p)) = SessionOf(State)
            /\ enter_resize(State, c, p).m_moveresize = m_moveresize
            /\ SessionOf(enter_resize(State, c, p)) = SessionOf(State)

(* A move session of one client is active and enter_resize is called for   *)
(* another client and another placeholder.                                 *)
C1_Witness ==
    /\ get_move_resize_state(State) = "MR_MOVE"
    /\ \E c \in Windows, p \in Placeholders :
          /\ c # get_move_resize_client(State)
          /\ p # get_move_resize_placeholder(State)
          /\ SessionOf(enter_resize(State, c, p)) = SessionOf(State)

(* C2: after any calls of register_icon and unregister_icon, for any       *)
(* icons, find_icon_from_client(c) is icon i exactly when                  *)
(* find_icon_from_icon_window(i.icon) is i and i.client is c.              *)
C2_IconBothOrNeither ==
    \A c \in Windows, i \in Icons :
        (find_icon_from_client(State, c) = i)
            <=> (find_icon_from_icon_window(State, i.icon) = i /\ i.client = c)

(* C10: from any state one call of exit_move_resize leaves no session (the *)
(* getters give None, None and MR_INVALID, no MoveResize object is live),  *)
(* a second call changes nothing, and enter_move and enter_resize then     *)
(* start the session they are asked for.                                   *)
C10_ExitIdempotent ==
    LET t == exit_move_resize(State)
    IN  /\ t.m_moveresize = NoMoveResize
        /\ SessionOf(t) = <<None, None, "MR_INVALID">>
        /\ t.mr_live = 0
        /\ exit_move_resize(t) = t
        /\ \A c \in Windows, p \in Placeholders :
              /\ SessionOf(enter_move(t, c, p)) = <<c, p, "MR_MOVE">>
              /\ SessionOf(enter_resize(t, c, p)) = <<c, p, "MR_RESIZE">>

(* A resize session is active, and exit_move_resize ends it. *)
C10_Witness ==
    /\ get_move_resize_state(State) = "MR_RESIZE"
    /\ mr_live = 1
    /\ exit_move_resize(State).m_moveresize = NoMoveResize
    /\ exit_move_resize(State).mr_live = 0

NoIconFor(s, w) ==
    /\ find_icon_from_client(s, w) = NullIcon
    /\ \A i \in IconWindows : find_icon_from_icon_window(s, i).client # w

(* The state after a DestroyNotify for the session's client w. *)
C3_After(w) ==
    LET t == step(State, DestroyNotify(w), hotkey)
    IN  /\ t.m_moveresize = NoMoveResize
        /\ SessionOf(t) = <<None, None, "MR_INVALID">>
        /\ t.mr_live = 0
        /\ NoIconFor(t, w)
        /\ ~is_client(t, w)

(* C3: when a DestroyNotify for the client of the active move/resize       *)
(* session has been handled, no session is active (the getters give None,  *)
(* None and MR_INVALID), no icon is registered for the client and the      *)
(* client is not in the registry.                                          *)
C3_DestroyClearsSession ==
    \A w \in Windows :
        (is_client(State, w) /\ get_move_resize_client(State) = w) => C3_After(w)

(* A client is mid-resize, and its DestroyNotify is handled. *)
C3_Witness ==
    \E w \in Windows :
        /\ is_client(State, w)
        /\ get_move_resize_client(State) = w
        /\ get_move_resize_state(State) = "MR_RESIZE"
        /\ is_resizing_desktop(find_desktop(State, w))
        /\ C3_After(w)

(* The state after a MapNotify for the registered client w. *)
C4_After(w, q) ==
    LET d == find_desktop(State, w)
        t == step(State, MapNotify(w, q), hotkey)
        c == t.m_clients[w]
    IN  /\ is_client(t, w)
        /\ ~is_icon_desktop(c.desktop)
        /\ NoIconFor(t, w)
        /\ get_move_resize_client(t) # w
        /\ ~is_moving_desktop(c.desktop)
        /\ ~is_resizing_desktop(c.desktop)
        /\ is_moving_desktop(d) =>
              /\ t.m_moveresize = NoMoveResize
              /\ c.x = placeholder_attr.x /\ c.y = placeholder_attr.y
        /\ is_resizing_desktop(d) =>
              /\ t.m_moveresize = NoMoveResize
              /\ c.width = placeholder_attr.width
              /\ c.height = placeholder_attr.height
        /\ \/ is_all_desktop(c.desktop)
           \/ c.desktop = UserDesktop(t.m_current_desktop)

(* C4: after a MapNotify for a registered client, whatever state it was    *)
(* in, the client is not iconified and has no icon, no session involves it *)
(* and the placeholder's geometry has been committed to it, and it is on   *)
(* the sticky desktop or on the active desktop.                            *)
C4_MapKnownClient ==
    \A w \in Windows, q \in Queries : is_client(State, w) => C4_After(w, q)

(* One client is being moved and its placeholder has been dragged away,    *)
(* the other is iconified from a desktop that is not the active one; each  *)
(* is mapped again.                                                        *)
C4_Witness ==
    \E w1 \in Windows, w2 \in Windows :
        /\ is_moving_desktop(find_desktop(State, w1))
        /\ placeholder_attr.x # m_clients[w1].x
        /\ is_icon_desktop(find_desktop(State, w2))
        /\ m_clients[w2].prior # UserDesktop(m_current_desktop)
        /\ find_icon_from_client(State, w2) # NullIcon
        /\ C4_After(w1, Plain)
        /\ C4_After(w2, Plain)

(* C5: a MapNotify for a registered client on the sticky desktop leaves    *)
(* the client on the sticky desktop, for every active desktop.             *)
C5_StickyStaysSticky ==
    \A w \in Windows, q \in Queries :
        (is_client(State, w) /\ is_all_desktop(find_desktop(State, w))) =>
            is_all_desktop(step(State, MapNotify(w, q), hotkey).m_clients[w].desktop)

(* A sticky client is mapped again while the second desktop is active. *)
C5_Witness ==
    \E w \in Windows :
        /\ is_client(State, w)
        /\ is_all_desktop(find_desktop(State, w))
        /\ m_current_desktop = 2
        /\ is_all_desktop(step(State, MapNotify(w, Plain), hotkey).m_clients[w].desktop)

Registered(s) == { w \in Windows : is_client(s, w) }

(* What add_client sets once, when the record is made. *)
Made(c) == [layer |-> c.layer, mode |-> c.mode, autofocus |-> c.autofocus,
            unmapped |-> c.unmapped]

C7_MapRegistered(w, q) ==
    LET t == step(State, MapNotify(w, q), hotkey)
    IN  /\ Registered(t) = Registered(State)
        /\ Made(t.m_clients[w]) = Made(m_clients[w])
        /\ \A v \in Windows \ {w} : t.m_clients[v] = m_clients[v]

(* C7: a MapNotify for an id that is registered makes no second record     *)
(* (the registered ids are the same and the record of the id is the one    *)
(* made when it was added), and a DestroyNotify for an id that is not      *)
(* registered leaves the registry, and the whole state, unchanged.         *)
C7_NoIdTwice ==
    \A w \in Windows :
        /\ is_client(State, w) => \A q \in Queries : C7_MapRegistered(w, q)
        /\ ~is_client(State, w) => step(State, DestroyNotify(w), hotkey) = State

(* One id is registered, with a layer that is not the dialog layer, and is *)
(* mapped again as a transient window; the other id is not registered and  *)
(* is destroyed.                                                           *)
C7_Witness ==
    \E w \in Windows, v \in Windows :
        /\ is_client(State, w)
        /\ m_clients[w].layer # DIALOG_LAYER
        /\ C7_MapRegistered(w, [Plain EXCEPT !.transient = TRUE])
        /\ ~is_client(State, v)
        /\ Registered(State) # {}
        /\ step(State, DestroyNotify(v), hotkey) = State

(* The ICONIFY key action on the client w, then a press of button b with   *)
(* modifier m on the window of its icon.                                   *)
C8_RoundTrip(sub, b, m) ==
    LET e == KeyPress("ICONIFY", sub)
        w == KeyTarget(State, e, hotkey)
        t == step(State, e, hotkey)
        icon == find_icon_from_client(t, w)
        u == step(t, ButtonPress(icon.icon, None, b, m), hotkey)
    IN  /\ is_icon_desktop(t.m_clients[w].desktop)
        /\ icon # NullIcon
        /\ icon.client = w
        /\ find_icon_from_icon_window(t, icon.icon) = icon
        /\ AttrOf(t.m_clients[w]) = AttrOf(m_clients[w])
        /\ u.m_clients[w].desktop = m_clients[w].desktop
        /\ AttrOf(u.m_clients[w]) = AttrOf(m_clients[w])
        /\ find_icon_from_client(u, w) = NullIcon
        /\ find_icon_from_icon_window(u, icon.icon) = NullIcon

Buttons == {"MOVE_BUTTON", "RESIZE_BUTTON", "LAUNCH_BUTTON"}
Modifiers == {"ACTION_MASK", "NO_MASK"}

(* C8: the ICONIFY key action on a registered client that is on a desktop  *)
(* (not iconified, not being moved or resized) puts it on the icon desktop *)
(* with an icon found by the client id and by the icon's window id, and a  *)
(* button press on the icon's window then restores the desktop, position   *)
(* and size it had before, and both icon lookups give not-found.           *)
C8_IconifyDeiconify ==
    \A sub \in Windows :
        OnScreenDesktop(State, KeyTarget(State, KeyPress("ICONIFY", sub), hotkey)) =>
            \A b \in Buttons, m \in Modifiers : C8_RoundTrip(sub, b, m)

(* A client on the second desktop, at a place that is not the origin, is   *)
(* iconified while the first desktop is active, and deiconified by a press *)
(* of the launch button with the action modifier.                          *)
C8_Witness ==
    \E sub \in Windows :
        LET w == KeyTarget(State, KeyPress("ICONIFY", sub), hotkey)
        IN  /\ OnScreenDesktop(State, w)
            /\ m_clients[w].desktop = UserDesktop(2)
            /\ m_current_desktop = 1
            /\ m_clients[w].x # 0
            /\ C8_RoundTrip(sub, "LAUNCH_BUTTON", "ACTION_MASK")

(* Sticky, or iconified from the sticky desktop. *)
IsSticky(c) ==
    \/ is_all_desktop(c.desktop)
    \/ is_icon_desktop(c.desktop) /\ is_all_desktop(c.prior)

(* The queries of a manageable window of class Dialog, whose rule is       *)
(* ACT_STICK with a set-layer action.                                      *)
DialogQueries ==
    { q \in Queries : q.class = "Dialog" /\ ~q.override_redirect }

(* C6 as claimed: mapping a new manageable window of class Dialog gives a  *)
(* client that is sticky and at the rule's layer, for every active desktop *)
(* and for a visible and a hidden initial state alike.                     *)
C6_RuleAppliedAlways ==
    \A w \in Windows, q \in DialogQueries :
        ~is_client(State, w) =>
            LET c == step(State, MapNotify(w, q), hotkey).m_clients[w]
            IN  /\ c # NoClient
                /\ IsSticky(c)
                /\ c.layer = classactions["Dialog"].layer

C6_After(w, q) ==
    LET t == step(State, MapNotify(w, q), hotkey)
        c == t.m_clients[w]
    IN  /\ is_client(t, w)
        /\ ~q.iconic =>
              /\ is_all_desktop(c.desktop)
              /\ c.layer = classactions["Dialog"].layer
        /\ q.iconic =>
              /\ is_icon_desktop(c.desktop)
              /\ c.prior = UserDesktop(m_current_desktop)
              /\ c.layer = IF q.transient THEN DIALOG_LAYER ELSE DEF_LAYER
              /\ c.mode = "CPS_FLOATING"

(* C6 amended: mapping a new manageable window of class Dialog whose       *)
(* requested initial state is visible gives a client that is sticky and at *)
(* the rule's layer, for every active desktop; when the requested initial  *)
(* state is hidden the rule is not applied: the client is iconified from   *)
(* the active desktop, not sticky, at the default layer (the dialog layer  *)
(* if it is transient).                                                    *)
C6_RuleAppliedWhenVisible ==
    \A w \in Windows, q \in DialogQueries :
        ~is_client(State, w) => C6_After(w, q)

(* On the second desktop a Dialog window appears visible, and another      *)
(* appears iconic and not transient.                                       *)
C6_Witness ==
    /\ m_current_desktop = 2
    /\ \E w \in Windows :
          /\ ~is_client(State, w)
          /\ C6_After(w, NewWindow(FALSE, Box(0, 0, 1, 1), FALSE, "Dialog", FALSE))
          /\ C6_After(w, NewWindow(FALSE, Box(0, 0, 1, 1), TRUE, "Dialog", FALSE))
          /\ step(State, MapNotify(w, NewWindow(FALSE, Box(0, 0, 1, 1), TRUE,
                                                "Dialog", FALSE)),
                  hotkey).m_clients[w].layer # classactions["Dialog"].layer

(* A client the focus cycle may give the focus to: registered, shown on    *)
(* the active desktop (so not iconified and not in a session), mapped, and *)
(* one that takes the focus.                                               *)
Eligible(s, w) ==
    /\ w \in Windows
    /\ s.m_clients[w] # NoClient
    /\ \/ s.m_clients[w].desktop = UserDesktop(s.m_current_desktop)
       \/ s.m_clients[w].desktop = AllDesktops
    /\ ~s.m_clients[w].unmapped
    /\ s.m_clients[w].autofocus

CycleActions == {"CYCLE_FOCUS", "CYCLE_FOCUS_BACK"}

C9_AfterCycle(action, sub) ==
    LET t == step(State, KeyPress(action, sub), hotkey)
    IN  /\ t.m_focused # m_focused => Eligible(State, t.m_focused)
        /\ [t EXCEPT !.m_focused = m_focused] = State
        /\ (\A w \in Windows : ~Eligible(State, w)) => t.m_focused = m_focused

(* C9: get_next and get_prev give None or an eligible client, a            *)
(* CYCLE_FOCUS or CYCLE_FOCUS_BACK key changes the focus only to an        *)
(* eligible client and changes nothing else, and when no client is         *)
(* eligible both give None and the focus is left as it was.                *)
C9_CycleFocusEligible ==
    /\ get_next(State) # None => Eligible(State, get_next(State))
    /\ get_prev(State) # None => Eligible(State, get_prev(State))
    /\ (\A w \in Windows : ~Eligible(State, w)) =>
          get_next(State) = None /\ get_prev(State) = None
    /\ \A action \in CycleActions, sub \in Windows \cup {None} :
          C9_AfterCycle(action, sub)

(* One client is registered and shown but unmapped, the other is eligible  *)
(* and not focused; CYCLE_FOCUS gives the focus to the eligible one.       *)
C9_Witness ==
    \E w \in Windows, v \in Windows :
        /\ is_visible(State, w)
        /\ m_clients[w].unmapped
        /\ Eligible(State, v)
        /\ m_focused # v
        /\ step(State, KeyPress("CYCLE_FOCUS", None), hotkey).m_focused = v
        /\ C9_AfterCycle("CYCLE_FOCUS", None)

(* Every lookup, by either key, gives in s what it gives in t. *)
SameLookups(s, t) ==
    \A k \in MapKeys :
        /\ find_icon_from_client(s, k) = find_icon_from_client(t, k)
        /\ find_icon_from_icon_window(s, k) = find_icon_from_icon_window(t, k)

C11_FailedClientLookup(k) ==
    /\ find_icon_from_client(State, k) = NullIcon
    /\ SameLookups(after_find_icon_from_client(State, k), State)

C11_FailedIconWindowLookup(k) ==
    /\ find_icon_from_icon_window(State, k) = NullIcon
    /\ SameLookups(after_find_icon_from_icon_window(State, k), State)
    /\ SameLookups(step(State, Expose(k), hotkey), State)

(* C11: find_icon_from_client and find_icon_from_icon_window, called with  *)
(* a key under which no icon is registered, return the null icon, and      *)
(* every lookup made afterwards, by any key, gives what it gave before;    *)
(* so does every lookup after an Expose for a window that is no icon.      *)
C11_FailedLookupIsInert ==
    \A k \in MapKeys :
        /\ m_clients_to_icons[k] \notin Icons => C11_FailedClientLookup(k)
        /\ m_icon_windows_to_icons[k] \notin Icons => C11_FailedIconWindowLookup(k)

(* The icon of client 1 has been unregistered and the map has no node for  *)
(* it, that of client 2 is registered; the lookup of client 1 fails and    *)
(* leaves a node, and so does the lookup of the root among the icon        *)
(* windows.                                                                *)
C11_Witness ==
    /\ m_clients_to_icons[1] = NoEntry
    /\ m_clients_to_icons[2] \in Icons
    /\ m_icon_windows_to_icons[Root] = NoEntry
    /\ m_icon_windows_to_icons[IconWindowOf(1)] \in Icons
    /\ after_find_icon_from_client(State, 1).m_clients_to_icons[1] = NullIcon
    /\ after_find_icon_from_icon_window(State, Root).m_icon_windows_to_icons[Root]
          = NullIcon
    /\ C11_FailedClientLookup(1)
    /\ C11_FailedIconWindowLookup(Root)

OverrideQueries == { q \in Queries : q.override_redirect }

ManageableQueries == { q \in Queries : ~q.override_redirect }

(* One and two MapNotify events for the window w, which asks not to be     *)
(* managed, leave the whole state as it is.                                *)
C12_Ignored(w, q) ==
    LET t == step(State, MapNotify(w, q), hotkey)
    IN  /\ t = State
        /\ step(t, MapNotify(w, q), hotkey) = State
        /\ ~is_client(t, w)
        /\ NoIconFor(t, w)

(* C12: a MapNotify for an unknown window whose override-redirect flag is  *)
(* set registers no client: after one and after two such events the        *)
(* window is not in the registry and has no icon, and the registry, the    *)
(* focus and the session (the whole state) are as before.                  *)
C12_OverrideRedirectIgnored ==
    \A w \in Windows, q \in OverrideQueries :
        ~is_client(State, w) => C12_Ignored(w, q)

(* Another client is registered and a session is active when a window of   *)
(* class Dialog with the override-redirect flag and the iconic hint is     *)
(* mapped.                                                                 *)
C12_Witness ==
    \E w \in Windows :
        /\ ~is_client(State, w)
        /\ Registered(State) # {}
        /\ m_moveresize # NoMoveResize
        /\ C12_Ignored(w, NewWindow(TRUE, Box(0, 0, 1, 1), TRUE, "Dialog", TRUE))

(* The new client is iconified, its icon under both keys. *)
C13_Iconified(w, q) ==
    LET t == step(State, MapNotify(w, q), hotkey)
        icon == find_icon_from_client(t, w)
    IN  /\ is_client(t, w)
        /\ is_icon_desktop(t.m_clients[w].desktop)
        /\ icon \in Icons
        /\ icon.client = w
        /\ find_icon_from_icon_window(t, icon.icon) = icon

(* C13 as claimed: a MapNotify for an unknown manageable window with the   *)
(* iconic hint registers a client that is iconified, its icon under both   *)
(* lookup keys; with any other initial state the new client is on the      *)
(* active desktop.                                                         *)
C13_IconicOrActiveDesktop ==
    \A w \in Windows, q \in ManageableQueries :
        ~is_client(State, w) =>
            IF q.iconic THEN C13_Iconified(w, q)
            ELSE LET t == step(State, MapNotify(w, q), hotkey)
                 IN  /\ is_client(t, w)
                     /\ t.m_clients[w].desktop = UserDesktop(m_current_desktop)

C13_Visible(w, q) ==
    LET t == step(State, MapNotify(w, q), hotkey)
        stick == /\ q.class \in DOMAIN classactions
                 /\ "ACT_STICK" \in classactions[q.class].actions
    IN  /\ is_client(t, w)
        /\ find_icon_from_client(t, w) = NullIcon
        /\ t.m_clients[w].desktop =
              IF stick THEN AllDesktops ELSE UserDesktop(m_current_desktop)

(* C13 amended: a MapNotify for an unknown manageable window with the      *)
(* iconic hint registers a client that is iconified, its icon under both   *)
(* lookup keys; with any other initial state the new client is on the      *)
(* active desktop, or on the sticky desktop when the rule of its class has *)
(* ACT_STICK.                                                              *)
C13_IconicOrShown ==
    \A w \in Windows, q \in ManageableQueries :
        ~is_client(State, w) =>
            IF q.iconic THEN C13_Iconified(w, q) ELSE C13_Visible(w, q)

(* While the second desktop is active a plain window is mapped with the    *)
(* iconic hint, without it, and a Dialog window without it.                *)
C13_Witness ==
    /\ m_current_desktop = 2
    /\ \E w \in Windows :
          /\ ~is_client(State, w)
          /\ C13_Iconified(w, [Plain EXCEPT !.iconic = TRUE])
          /\ C13_Visible(w, Plain)
          /\ C13_Visible(w, [Plain EXCEPT !.class = "Dialog"])

(* The release of the session's placeholder w. *)
C14_Committed(w) ==
    LET t == step(State, ButtonRelease(w), hotkey)
        c == get_move_resize_client(State)
        mode == get_move_resize_state(State)
    IN  /\ t.m_moveresize = NoMoveResize
        /\ SessionOf(t) = <<None, None, "MR_INVALID">>
        /\ t.mr_live = 0
        /\ is_client(t, c)
        /\ mode = "MR_MOVE" =>
              /\ t.m_clients[c].x = placeholder_attr.x
              /\ t.m_clients[c].y = placeholder_attr.y
              /\ t.m_clients[c].width = m_clients[c].width
              /\ t.m_clients[c].height = m_clients[c].height
        /\ mode = "MR_RESIZE" =>
              /\ t.m_clients[c].width = placeholder_attr.width
              /\ t.m_clients[c].height = placeholder_attr.height
              /\ t.m_clients[c].x = m_clients[c].x
              /\ t.m_clients[c].y = m_clients[c].y
        /\ \A v \in Windows \ {c} : t.m_clients[v] = m_clients[v]

(* C14: a ButtonRelease on the placeholder of the active session commits   *)
(* the placeholder's position (move) or size (resize) to the session's     *)
(* client and leaves no session; a ButtonRelease on any other window, or   *)
(* without a session, leaves the whole state as it is.                     *)
C14_ButtonRelease ==
    \A w \in MapKeys :
        IF w # None /\ w = get_move_resize_placeholder(State)
        THEN C14_Committed(w)
        ELSE step(State, ButtonRelease(w), hotkey) = State

(* A client is being moved and its placeholder has been dragged away from  *)
(* it; the placeholder is released, and so is the other placeholder.       *)
C14_Witness ==
    \E c \in Windows, v \in Windows :
        /\ get_move_resize_client(State) = c
        /\ get_move_resize_state(State) = "MR_MOVE"
        /\ placeholder_attr.x # m_clients[c].x
        /\ C14_Committed(PlaceholderOf(c))
        /\ v # c
        /\ step(State, ButtonRelease(PlaceholderOf(v)), hotkey) = State

(* What the registry keeps of a client across an unmap. *)
Kept(c) == [desktop |-> c.desktop, layer |-> c.layer, mode |-> c.mode,
            x |-> c.x, y |-> c.y, width |-> c.width, height |-> c.height]

C15_After(w) ==
    LET t == step(State, UnmapNotify(w), hotkey)
    IN  /\ Registered(t) = Registered(State)
        /\ Kept(t.m_clients[w]) = Kept(m_clients[w])
        /\ t.m_focused # w
        /\ get_next(t) # w
        /\ get_prev(t) # w
        /\ step(t, KeyPress("CYCLE_FOCUS", None), hotkey).m_focused # w
        /\ step(t, KeyPress("CYCLE_FOCUS_BACK", None), hotkey).m_focused # w

(* C15: after an UnmapNotify for a registered client the client is still   *)
(* registered with the desktop, layer, mode and geometry it had, it is not *)
(* the focused client and the focus cycle does not return it; no           *)
(* UnmapNotify, for any window, deletes a client record.                   *)
C15_UnmapKeepsRecord ==
    /\ \A w \in Windows : is_client(State, w) => C15_After(w)
    /\ \A w \in MapKeys :
          Registered(step(State, UnmapNotify(w), hotkey)) = Registered(State)

(* The only eligible client holds the focus and is unmapped. *)
C15_Witness ==
    \E w \in Windows :
        /\ m_focused = w
        /\ Eligible(State, w)
        /\ get_next(State) = w
        /\ m_clients[w].x # 0
        /\ C15_After(w)

(* The key actions, those that need a client among them. *)
ClientActions ==
    {"CLIENT_NEXT_DESKTOP", "CLIENT_PREV_DESKTOP", "TOGGLE_STICK", "ICONIFY",
     "MAXIMIZE", "REQUEST_CLOSE", "FORCE_CLOSE", "K_SNAP_TOP", "K_SNAP_BOTTOM",
     "K_SNAP_LEFT", "K_SNAP_RIGHT", "SCREEN_TOP", "SCREEN_BOTTOM",
     "SCREEN_LEFT", "SCREEN_RIGHT", "LAYER_ABOVE", "LAYER_BELOW", "LAYER_TOP",
     "LAYER_BOTTOM", "LAYER_1", "LAYER_2", "LAYER_3", "LAYER_4", "LAYER_5",
     "LAYER_6", "LAYER_7", "LAYER_8", "LAYER_9"}

AllActions ==
    ClientActions \cup {"INVALID_ACTION", "RUN", "CYCLE_FOCUS", "CYCLE_FOCUS_BACK",
                        "EXIT_WM", "NEXT_DESKTOP", "PREV_DESKTOP"}

(* Events of every kind, on every window. *)
AllEvents ==
    { KeyPress(a, sub) : a \in AllActions, sub \in Windows \cup {None} }
    \cup { ButtonPress(w, sub, b, m) :
             w \in IconWindows \cup Windows \cup {Root}, sub \in Windows \cup {None},
             b \in Buttons, m \in Modifiers }
    \cup { ButtonRelease(w) : w \in MapKeys }
    \cup { MotionNotify(d, 0) : d \in {-1, 1} }
    \cup { MapNotify(w, q) : w \in Windows, q \in Queries }
    \cup { UnmapNotify(w) : w \in MapKeys }
    \cup { Expose(w) : w \in MapKeys }
    \cup { DestroyNotify(w) : w \in MapKeys }
    \cup { RRNotify(l) : l \in {OneScreen, TwoScreens} }

(* C16: step() has returned false (m_done is set) exactly when an EXIT_WM  *)
(* key action has been handled in some step so far; in every state, for    *)
(* an event of any kind, step() returns false exactly when it had returned *)
(* false before or the event is an EXIT_WM key press, so no other event or *)
(* action ends the loop and false once is false ever after.                *)
C16_ExitOnlyOnExitWM ==
    /\ m_done <=> exit_processed
    /\ \A e \in AllEvents :
          ~step_returns(State, e, hotkey) <=> (m_done \/ IsExit(e))

(* The EXIT_WM action has been handled while a client is registered; a     *)
(* later call of step(), for a MapNotify, returns false again.             *)
C16_Witness ==
    /\ m_done
    /\ exit_processed
    /\ Registered(State) # {}
    /\ \E w \in Windows : ~step_returns(State, MapNotify(w, Plain), hotkey)

(* What the reconcile is about: who is registered, each client's desktop,  *)
(* layer, mode and geometry, the icon tables and the session.              *)
Reconciled(s) ==
    <<Registered(s), [w \in Windows |-> Kept(s.m_clients[w])],
      s.m_clients_to_icons, s.m_icon_windows_to_icons, s.m_moveresize>>

MapOnce(w, q) == step(State, MapNotify(w, q), hotkey)

MapTwice(w, q) == step(MapOnce(w, q), MapNotify(w, q), hotkey)

(* C17 as claimed: for every window and every reachable state, handling    *)
(* MapNotify for the window twice in a row leaves registry, desktops,      *)
(* layers, modes, geometry, icon tables and session as handling it once.   *)
C17_MapTwiceIsMapOnce ==
    \A w \in Windows, q \in Queries :
        Reconciled(MapTwice(w, q)) = Reconciled(MapOnce(w, q))

(* The window is new, manageable and asks to start iconic: the first       *)
(* MapNotify registers it iconified, the second deiconifies it onto the    *)
(* active desktop and changes nothing else.                                *)
C17_IconicThenShown(w, q) ==
    LET once == MapOnce(w, q)
        twice == MapTwice(w, q)
    IN  /\ is_icon_desktop(once.m_clients[w].desktop)
        /\ find_icon_from_client(once, w) \in Icons
        /\ twice.m_clients[w].desktop = UserDesktop(m_current_desktop)
        /\ NoIconFor(twice, w)
        /\ [Kept(twice.m_clients[w]) EXCEPT !.desktop = IconDesktop]
              = Kept(once.m_clients[w])
        /\ Registered(twice) = Registered(once)
        /\ twice.m_moveresize = once.m_moveresize
        /\ \A v \in Windows \ {w} : twice.m_clients[v] = once.m_clients[v]

(* C17 amended: handling MapNotify for a window twice in a row leaves      *)
(* registry, desktops, layers, modes, geometry, icon tables and session as *)
(* handling it once, for every window and every reachable state, except    *)
(* for an unknown manageable window whose hints request the iconic state:  *)
(* the first MapNotify registers it iconified and the second deiconifies   *)
(* it onto the active desktop.                                             *)
C17_MapTwiceUnlessNewIconic ==
    \A w \in Windows, q \in Queries :
        IF ~is_client(State, w) /\ ~q.override_redirect /\ q.iconic
        THEN C17_IconicThenShown(w, q)
        ELSE Reconciled(MapTwice(w, q)) = Reconciled(MapOnce(w, q))

(* A client that is being moved, with its placeholder dragged away, is     *)
(* mapped twice; a new Dialog window is mapped twice; a new window with    *)
(* the iconic hint is mapped twice.                                        *)
C17_Witness ==
    \E w \in Windows, v \in Windows :
        /\ is_moving_desktop(find_desktop(State, w))
        /\ placeholder_attr.x # m_clients[w].x
        /\ Reconciled(MapOnce(w, Plain)) # Reconciled(State)
        /\ Reconciled(MapTwice(w, Plain)) = Reconciled(MapOnce(w, Plain))
        /\ ~is_client(State, v)
        /\ Reconciled(MapTwice(v, [Plain EXCEPT !.class = "Dialog"]))
              = Reconciled(MapOnce(v, [Plain EXCEPT !.class = "Dialog"]))
        /\ C17_IconicThenShown(v, [Plain EXCEPT !.iconic = TRUE])

(* The window a key press acts on, read off the event and the hotkey mode: *)
(* under HK_MOUSE the subwindow under the pointer, or the event's window   *)
(* when there is none; under HK_FOCUS the focused window.                  *)
C18_Resolved(sub) ==
    IF hotkey = "HK_MOUSE" THEN (IF sub = None THEN Root ELSE sub) ELSE m_focused

C18_Ignored(e) ==
    LET t == step(State, e, hotkey)
    IN  /\ t.m_clients = m_clients
        /\ t.m_clients_to_icons = m_clients_to_icons
        /\ t.m_icon_windows_to_icons = m_icon_windows_to_icons
        /\ t.m_moveresize = m_moveresize
        /\ t.mr_live = mr_live
        /\ t.m_focused = m_focused

(* C18: an event that refers to a window that is not in the registry is    *)
(* ignored: a key press whose action needs a target client, resolved to a  *)
(* window that is not a client, and an UnmapNotify or DestroyNotify for a  *)
(* window that is not a client, leave registry, icon tables, session and   *)
(* focus as they were.                                                     *)
C18_UnknownTargetIgnored ==
    /\ \A a \in ClientActions, sub \in Windows \cup {None} :
          ~is_client(State, C18_Resolved(sub)) => C18_Ignored(KeyPress(a, sub))
    /\ \A w \in MapKeys :
          ~is_client(State, w) =>
              /\ C18_Ignored(UnmapNotify(w))
              /\ C18_Ignored(DestroyNotify(w))

(* Under HK_MOUSE a client is focused and the pointer is over a window     *)
(* that is not a client: the key action would iconify the focused client,  *)
(* and a DestroyNotify for the client itself would remove it.              *)
C18_Witness ==
    \E c \in Windows, u \in Windows :
        /\ hotkey = "HK_MOUSE"
        /\ m_focused = c
        /\ ~is_client(State, u)
        /\ ClientKeyAction(State, c, "ICONIFY") # State
        /\ step(State, KeyPress("ICONIFY", u), hotkey) = State
        /\ step(State, DestroyNotify(c), hotkey) # State
        /\ step(State, DestroyNotify(u), hotkey) = State
        /\ step(State, UnmapNotify(u), hotkey) = State

(* The client of the icon has been deiconified and nothing else was done.  *)
C19_After(iw, c, t) ==
    /\ ~t.forked
    /\ t.m_moveresize = m_moveresize
    /\ t.mr_live = mr_live
    /\ t.m_focused = m_focused
    /\ t.m_current_desktop = m_current_desktop
    /\ is_client(t, c)
    /\ ~is_icon_desktop(t.m_clients[c].desktop)
    /\ t.m_clients[c].desktop = m_clients[c].prior
    /\ Kept(t.m_clients[c]) = [Kept(m_clients[c]) EXCEPT !.desktop = m_clients[c].prior]
    /\ NoIconFor(t, c)
    /\ find_icon_from_icon_window(t, iw) = NullIcon
    /\ \A v \in Windows \ {c} : t.m_clients[v] = m_clients[v]

(* C19: a ButtonPress whose window is the window of a registered icon      *)
(* deiconifies the icon's client, for every button, every modifier state   *)
(* and every subwindow, and does nothing else: no program is launched, no  *)
(* move or resize session starts and the focus does not change.            *)
C19_IconPressDeiconifies ==
    \A iw \in IconWindows :
        LET icon == find_icon_from_icon_window(State, iw)
        IN  icon \in Icons =>
                \A sub \in Windows \cup {None}, b \in Buttons, m \in Modifiers :
                    C19_After(iw, icon.client,
                              step(State, ButtonPress(iw, sub, b, m), hotkey))

(* An icon is registered while another client is visible and focused, and  *)
(* the press on the icon's window carries that client as its subwindow:    *)
(* with the move button and the action modifier, and with no modifier.     *)
C19_Witness ==
    \E iw \in IconWindows, v \in Windows :
        LET icon == find_icon_from_icon_window(State, iw)
        IN  /\ icon \in Icons
            /\ icon.client # v
            /\ is_visible(State, v)
            /\ m_focused = v
            /\ ~SessionOpen(State)
            /\ start_moving(State, v) # State
            /\ C19_After(iw, icon.client,
                   step(State, ButtonPress(iw, v, "MOVE_BUTTON", "ACTION_MASK"), hotkey))
            /\ C19_After(iw, icon.client,
                   step(State, ButtonPress(iw, v, "LAUNCH_BUTTON", "NO_MASK"), hotkey))

(* No session is active: the idle-armed state of the interaction.          *)
Idle(s) == s.m_moveresize = NoMoveResize /\ ~SessionOpen(s)

(* A session of the given mode has started on client c, with a placeholder *)
(* at the geometry the client had; no other client was touched.            *)
C20_Started(c, mode, t) ==
    /\ SessionOf(t) = <<c, PlaceholderOf(c), mode>>
    /\ t.mr_live = mr_live + 1
    /\ IF mode = "MR_MOVE" THEN is_moving_desktop(t.m_clients[c].desktop)
                           ELSE is_resizing_desktop(t.m_clients[c].desktop)
    /\ t.placeholder_attr = AttrOf(m_clients[c])
    /\ AttrOf(t.m_clients[c]) = AttrOf(m_clients[c])
    /\ \A v \in Windows \ {c} : t.m_clients[v] = m_clients[v]
    /\ ~t.forked

C20_NoSession(t) ==
    /\ SessionOf(t) = SessionOf(State)
    /\ t.mr_live = mr_live
    /\ t.m_clients = m_clients
    /\ ~t.forked

C21_Clamped(length, delta) == IF length + delta <= 0 THEN length ELSE length + delta

(* C21: during a resize session the placeholder's width and height are     *)
(* strictly positive after any sequence of MotionNotify events, and a      *)
(* MotionNotify with any pointer delta, positive or negative, adds the     *)
(* delta to each dimension unless that would make the dimension zero or    *)
(* negative, and then leaves that dimension as it was.                     *)
C21_ResizeStaysPositive ==
    get_move_resize_state(State) = "MR_RESIZE" =>
        /\ placeholder_attr.width > 0
        /\ placeholder_attr.height > 0
        /\ \A d \in PointerDeltas :
              LET t == step(State, MotionNotify(d[1], d[2]), hotkey)
              IN  /\ t.placeholder_attr.width = C21_Clamped(placeholder_attr.width, d[1])
                  /\ t.placeholder_attr.height = C21_Clamped(placeholder_attr.height, d[2])
                  /\ t.placeholder_attr.width > 0
                  /\ t.placeholder_attr.height > 0
                  /\ t.placeholder_attr.x = placeholder_attr.x
                  /\ t.placeholder_attr.y = placeholder_attr.y

(* A resize session whose placeholder has been dragged wider than the      *)
(* client and is now one unit high: one motion narrows it, another would   *)
(* take the height to zero and one would take the width below zero.        *)
C21_Witness ==
    /\ get_move_resize_state(State) = "MR_RESIZE"
    /\ placeholder_attr.width = MaxSize
    /\ m_clients[get_move_resize_client(State)].width < MaxSize
    /\ placeholder_attr.height = 1
    /\ step(State, MotionNotify(-1, -1), hotkey).placeholder_attr
          = [placeholder_attr EXCEPT !.width = MaxSize - 1]
    /\ step(State, MotionNotify(-MaxSize, 1), hotkey).placeholder_attr
          = [placeholder_attr EXCEPT !.height = 2]

(* The new, manageable windows that carry the transient hint.              *)
TransientQueries == { q \in ManageableQueries : q.transient }

(* The class rule of the window sets a layer and is applied: the window is *)
(* not mapped iconic.                                                      *)
LayerRuleApplies(q) ==
    /\ q.class \in DOMAIN classactions
    /\ "ACT_SETLAYER" \in classactions[q.class].actions
    /\ ~q.iconic

C22_Layer(w, q) == step(State, MapNotify(w, q), hotkey).m_clients[w].layer

(* C22 as claimed: every newly registered client whose window carries the  *)
(* transient hint is at DIALOG_LAYER once its MapNotify has been handled,  *)
(* also when a class rule with a set-layer action applies to its class.    *)
C22_TransientAtDialogLayer ==
    \A w \in Windows, q \in TransientQueries :
        ~is_client(State, w) => C22_Layer(w, q) = DIALOG_LAYER

(* C22 amended: every newly registered client whose window carries the     *)
(* transient hint is at DIALOG_LAYER once its MapNotify has been handled,  *)
(* unless a class rule with a set-layer action is applied to it (the       *)
(* window is not mapped iconic): then it is at the layer of the rule.      *)
C22_TransientAtDialogOrRuleLayer ==
    \A w \in Windows, q \in TransientQueries :
        ~is_client(State, w) =>
            /\ is_client(step(State, MapNotify(w, q), hotkey), w)
            /\ C22_Layer(w, q) = IF LayerRuleApplies(q)
                                 THEN classactions[q.class].layer
                                 ELSE DIALOG_LAYER

(* While one client is registered, a window that is not a client is mapped *)
(* with the transient hint: with no class rule, with the Pager rule (whose *)
(* layer is MAX_LAYER) shown, and with the Pager rule iconic.              *)
C22_Witness ==
    \E w \in Windows, v \in Windows :
        /\ is_client(State, v)
        /\ ~is_client(State, w)
        /\ C22_Layer(w, [Plain EXCEPT !.transient = TRUE]) = DIALOG_LAYER
        /\ C22_Layer(w, [Plain EXCEPT !.transient = TRUE, !.class = "Pager"]) = MAX_LAYER
        /\ C22_Layer(w, [Plain EXCEPT !.transient = TRUE, !.class = "Pager",
                                      !.iconic = TRUE]) = DIALOG_LAYER
        /\ C22_Layer(w, Plain) = DEF_LAYER

(* A new window of the Pager class, whose rule moves it to half the height *)
(* of the screen, at the position <<x, y>>.                                *)
PagerAt(x, y) == NewWindow(FALSE, Box(x, y, 1, 1), FALSE, "Pager", FALSE)

(* Where the rule of the class sends a window mapped at <<x, y>>.          *)
C23_Target(w, q) ==
    LET action == classactions[q.class]
        registered == add_client(State, w, "IS_VISIBLE", q.attr.x, q.attr.y,
                                 q.attr.width, q.attr.height, TRUE)
        screen == get_screen(registered, w)
    IN  [x |-> IF "ACT_MOVE_X" \in action.actions
               THEN Scale(screen.width, action.relative_x) ELSE q.attr.x,
         y |-> IF "ACT_MOVE_Y" \in action.actions
               THEN Scale(screen.height, action.relative_y) ELSE q.attr.y]

C23_Moved(w, q) ==
    LET c == step(State, MapNotify(w, q), hotkey).m_clients[w]
    IN  /\ c.mode = "CPS_FLOATING"
        /\ c.x = C23_Target(w, q).x
        /\ c.y = C23_Target(w, q).y

(* C23: a newly mapped window whose class rule has a relative move ends as *)
(* a floating client at x = screen.width * relative_x if ACT_MOVE_X is set *)
(* (else its original x) and y = screen.height * relative_y if ACT_MOVE_Y  *)
(* is set (else its original y), for every original position.              *)
C23_RelativeMove ==
    \A w \in Windows, x \in 0 .. MaxPos, y \in 0 .. MaxPos :
        ~is_client(State, w) => C23_Moved(w, PagerAt(x, y))

(* The positions at which add_window's test before change_location (x      *)
(* against the target x, and x again against the target y) finds nothing   *)
(* to move although y is not at its target: everywhere else the window is  *)
(* placed as the rule says.                                                *)
C23_MovedUnlessTestSkips ==
    \A w \in Windows, x \in 0 .. MaxPos, y \in 0 .. MaxPos :
        ~is_client(State, w) =>
            LET q == PagerAt(x, y)
                target == C23_Target(w, q)
            IN  IF x = target.x /\ x = target.y /\ y # target.y
                THEN ~C23_Moved(w, q)
                ELSE C23_Moved(w, q)

(* C24: a MotionNotify that arrives while no move or resize session is     *)
(* active changes nothing, whatever the pointer delta: no placeholder or   *)
(* client geometry moves, and registry, icon tables, focus and session are *)
(* as before the event.                                                    *)
C24_MotionOutsideSession ==
    get_move_resize_placeholder(State) = None =>
        \A d \in PointerDeltas :
            step(State, MotionNotify(d[1], d[2]), hotkey) = State

(* No session is active, after one that moved a client away from where it  *)
(* was mapped: the pointer moves.                                          *)
C24_Witness ==
    /\ m_moveresize = NoMoveResize
    /\ \E w \in Windows : is_visible(State, w) /\ m_clients[w].x > 0
    /\ step(State, MotionNotify(1, -1), hotkey) = State

(* The MotionNotify, Expose and RRNotify events: every pointer delta,      *)
(* every window, every screen layout.                                      *)
PassiveEvents ==
    { MotionNotify(d[1], d[2]) : d \in PointerDeltas }
    \cup { Expose(w) : w \in MapKeys }
    \cup { RRNotify(l) : l \in {OneScreen, TwoScreens} }

C25_Kept(t) ==
    /\ t.m_moveresize = m_moveresize
    /\ t.mr_live = mr_live
    /\ SessionOf(t) = SessionOf(State)
    /\ Registered(t) = Registered(State)
    /\ \A w \in Windows : t.m_clients[w].desktop = m_clients[w].desktop
    /\ SameLookups(State, t)

(* C25: a MotionNotify, an Expose or an RRNotify event never starts, ends  *)
(* or alters the move/resize session (its presence, client, placeholder    *)
(* and mode are the same before and after), and adds or removes no client  *)
(* and no registered icon.                                                 *)
C25_PassiveEventsKeepSession ==
    \A e \in PassiveEvents : C25_Kept(step(State, e, hotkey))

(* A session is active on one client while another is iconified: the       *)
(* pointer drags the placeholder, the icon's window is exposed and the     *)
(* screen layout changes.                                                  *)
C25_Witness ==
    \E iw \in IconWindows :
        /\ m_moveresize # NoMoveResize
        /\ find_icon_from_icon_window(State, iw) \in Icons
        /\ step(State, MotionNotify(1, 0), hotkey).placeholder_attr # placeholder_attr
        /\ step(State, RRNotify(TwoScreens), hotkey).m_screens # m_screens
        /\ C25_Kept(step(State, MotionNotify(1, 0), hotkey))
        /\ C25_Kept(step(State, Expose(iw), hotkey))
        /\ C25_Kept(step(State, RRNotify(TwoScreens), hotkey))

====
